---------------------------- MODULE Spec2Model ----------------------------
(***************************************************************************)
(* Model of the asynchronous Admin API engine of librdkafka                *)
(* (src/rdkafka_admin.c): the request op (rko) with its worker state       *)
(* machine, the enqueue-once notifier (eonce), the timeout timer, the      *)
(* broker/controller waiters, the main ops queue rk_ops, the response      *)
(* callback, the Broker-resource pre-flight and the response parsers.      *)
(***************************************************************************)
EXTENDS Integers, Sequences, FiniteSets, TLC

(***************************************************************************)
(* Bounds of the model.                                                    *)
(***************************************************************************)
MaxTime == 1
MaxArgs == 2

\* the request slots
Reqs == {1, 2}

(***************************************************************************)
(* Error codes (rd_kafka_resp_err_t), op types, event types, states.       *)
(***************************************************************************)
NO_ERROR            == "NO_ERROR"
ERR__DESTROY        == "_DESTROY"
ERR__TIMED_OUT      == "_TIMED_OUT"
ERR__TRANSPORT      == "_TRANSPORT"
ERR__BAD_MSG        == "_BAD_MSG"
ERR__CONFLICT       == "_CONFLICT"
ERR__INVALID_ARG    == "_INVALID_ARG"
ERR__UNSUPPORTED_FEATURE == "_UNSUPPORTED_FEATURE"
ERR_REQUEST_TIMED_OUT    == "REQUEST_TIMED_OUT"
ERR_TOPIC_ALREADY_EXISTS == "TOPIC_ALREADY_EXISTS"

OP_CREATETOPICS     == "CreateTopics"
OP_DELETETOPICS     == "DeleteTopics"
OP_CREATEPARTITIONS == "CreatePartitions"
OP_ALTERCONFIGS     == "AlterConfigs"
OP_DESCRIBECONFIGS  == "DescribeConfigs"

TopicOps  == {OP_CREATETOPICS, OP_DELETETOPICS, OP_CREATEPARTITIONS}
ConfigOps == {OP_ALTERCONFIGS, OP_DESCRIBECONFIGS}

\* RD_KAFKA_EVENT_<api>_RESULT, the reply event type fixed by each constructor
EventType(optype) == <<optype, "RESULT">>

STATE_INIT              == "INIT"
STATE_WAIT_BROKER       == "WAIT_BROKER"
STATE_WAIT_CONTROLLER   == "WAIT_CONTROLLER"
STATE_CONSTRUCT_REQUEST == "CONSTRUCT_REQUEST"
STATE_WAIT_RESPONSE     == "WAIT_RESPONSE"

OP_RES_KEEP    == "KEEP"
OP_RES_HANDLED == "HANDLED"

\* rd_kafka_ResourceType_t, in the order of rd_kafka_ResourceType_name's table
RESOURCE_TOPIC   == 2
RESOURCE_BROKER  == 4

\* rd_kafka_ConfigSource_t, in the order of rd_kafka_ConfigSource_name's table
CONFIG_SOURCE_UNKNOWN_CONFIG == 0
CONFIG_SOURCE_STATIC_BROKER_CONFIG == 4
CONFIG_SOURCE_DEFAULT_CONFIG == 5

\* a null pointer to a struct, and a null char pointer
NULL    == [null |-> TRUE]
NULLSTR == "NULL"

(***************************************************************************)
(* rd_list_t as used for the args and results lists: a sequence, indexed   *)
(* from 0 in the code; a position of a results list that was never set     *)
(* holds NULL.                                                             *)
(***************************************************************************)
rd_list_cnt(rl) == Len(rl)

rd_list_elem(rl, idx) ==
    IF idx >= 0 /\ idx < Len(rl) THEN rl[idx + 1] ELSE NULL

rd_list_set(rl, idx, ptr) ==
    IF idx >= Len(rl)
    THEN rl \o [j \in 1..(idx - Len(rl)) |-> NULL] \o <<ptr>>
    ELSE [rl EXCEPT ![idx + 1] = ptr]

(***************************************************************************)
(* Comparators of the args lists: 0 when the keys are equal (strcmp's      *)
(* sign is not used by the callers).                                       *)
(***************************************************************************)
rd_kafka_NewTopic_cmp(a, b) == IF a.topic = b.topic THEN 0 ELSE 1

rd_kafka_DeleteTopic_cmp(a, b) == IF a.topic = b.topic THEN 0 ELSE 1

rd_kafka_NewPartitions_cmp(a, b) == IF a.topic = b.topic THEN 0 ELSE 1

rd_kafka_ConfigResource_cmp(a, b) ==
    IF a.restype # b.restype THEN a.restype - b.restype
    ELSE IF a.name = b.name THEN 0 ELSE 1

\* the comparator a list is searched with, called through its pointer
rd_list_cmp(cmp, a, b) ==
    CASE cmp = "rd_kafka_NewTopic_cmp"       -> rd_kafka_NewTopic_cmp(a, b)
      [] cmp = "rd_kafka_DeleteTopic_cmp"    -> rd_kafka_DeleteTopic_cmp(a, b)
      [] cmp = "rd_kafka_NewPartitions_cmp"  -> rd_kafka_NewPartitions_cmp(a, b)
      [] cmp = "rd_kafka_ConfigResource_cmp" -> rd_kafka_ConfigResource_cmp(a, b)

\* index of the first element that compares equal to match, or -1
rd_list_index(rl, match, cmp) ==
    LET hits == {j \in 1..Len(rl) : rd_list_cmp(cmp, match, rl[j]) = 0}
    IN IF hits = {} THEN -1
       ELSE (CHOOSE j \in hits : \A h \in hits : j <= h) - 1

\* NULL when the name is empty or the type negative
rd_kafka_ConfigResource_new(restype, resname) ==
    IF Len(resname) = 0 \/ restype < 0 THEN NULL
    ELSE [restype |-> restype, name |-> resname, err |-> NO_ERROR,
          errstr |-> NULLSTR, config |-> <<>>]

rd_kafka_topic_result_new(topic, err, errstr) ==
    [topic |-> topic, err |-> err, errstr |-> errstr]

\* rd_kafka_confval_get_int on an option of the request
rd_kafka_confval_get_int(options, name) == options[name]

(***************************************************************************)
(* strtol(nptr, &endptr, 10) on a name given as its sequence of chars.     *)
(* The magnitude is accumulated in four 16-bit limbs (least significant    *)
(* first) so that 64-bit longs are computed exactly; the platform's long   *)
(* is long_bits wide (32 or 64).  The result is the value after the        *)
(* code's (int32_t) cast, with the number of chars consumed (0: endptr is  *)
(* the start of the name).                                                 *)
(***************************************************************************)
Limb == 2^16

DigitChars == <<"0", "1", "2", "3", "4", "5", "6", "7", "8", "9">>

IsDigit(c) == \E d \in 1..10 : DigitChars[d] = c

DigitVal(c) == (CHOOSE d \in 1..10 : DigitChars[d] = c) - 1

IsSpace(c) == c \in {" ", "\t", "\n"}

\* acc * 10 + d, acc = [l |-> four limbs, ovf |-> beyond 64 bits]
MulAdd(acc, d) ==
    LET t1 == acc.l[1] * 10 + d
        t2 == acc.l[2] * 10 + (t1 \div Limb)
        t3 == acc.l[3] * 10 + (t2 \div Limb)
        t4 == acc.l[4] * 10 + (t3 \div Limb)
    IN [l   |-> <<t1 % Limb, t2 % Limb, t3 % Limb, t4 % Limb>>,
        ovf |-> acc.ovf \/ (t4 \div Limb) > 0]

RECURSIVE ScanDigits(_, _, _)
\* [acc, i]: the digits of s from position i on, accumulated; i ends after
\* the last digit
ScanDigits(s, i, acc) ==
    IF i <= Len(s) /\ IsDigit(s[i])
    THEN ScanDigits(s, i + 1, MulAdd(acc, DigitVal(s[i])))
    ELSE [acc |-> acc, i |-> i]

RECURSIVE SkipSpace(_, _)
SkipSpace(s, i) ==
    IF i <= Len(s) /\ IsSpace(s[i]) THEN SkipSpace(s, i + 1) ELSE i

\* does the magnitude exceed what a long of this width holds
LongOverflows(acc, neg, bits) ==
    IF bits = 64
    THEN acc.ovf
         \/ (IF neg
             THEN acc.l[4] > 32768
                  \/ (acc.l[4] = 32768
                      /\ (acc.l[3] > 0 \/ acc.l[2] > 0 \/ acc.l[1] > 0))
             ELSE acc.l[4] >= 32768)
    ELSE acc.ovf \/ acc.l[4] > 0 \/ acc.l[3] > 0
         \/ (IF neg
             THEN acc.l[2] > 32768 \/ (acc.l[2] = 32768 /\ acc.l[1] > 0)
             ELSE acc.l[2] >= 32768)

\* the low 32 bits <<l1, l2>> read as a signed int32
AsInt32(l1, l2) ==
    IF l2 >= 32768 THEN (l2 - Limb) * Limb + l1 ELSE l2 * Limb + l1

\* (int32_t) of the long the magnitude and sign denote
CastInt32(acc, neg) ==
    IF ~neg THEN AsInt32(acc.l[1], acc.l[2])
    ELSE IF acc.l[1] = 0 /\ acc.l[2] = 0 THEN 0
    ELSE IF acc.l[1] = 0 THEN AsInt32(0, Limb - acc.l[2])
    ELSE AsInt32(Limb - acc.l[1], Limb - 1 - acc.l[2])

INT32_MAX == 2147483647
INT32_MIN == (-2147483647) - 1

strtol(nptr, bits) ==
    LET start  == SkipSpace(nptr, 1)
        signed == start <= Len(nptr) /\ nptr[start] \in {"-", "+"}
        neg    == signed /\ nptr[start] = "-"
        first  == IF signed THEN start + 1 ELSE start
        scan   == ScanDigits(nptr, first,
                             [l |-> <<0, 0, 0, 0>>, ovf |-> FALSE])
    IN IF scan.i = first
       THEN \* no digits: no conversion, endptr = nptr
            [r |-> 0, endptr |-> 0]
       ELSE IF LongOverflows(scan.acc, neg, bits)
       THEN \* LONG_MIN or LONG_MAX, cast to int32
            [r |-> IF bits = 64 THEN (IF neg THEN 0 ELSE -1)
                   ELSE (IF neg THEN INT32_MIN ELSE INT32_MAX),
             endptr |-> scan.i - 1]
       ELSE [r |-> CastInt32(scan.acc, neg), endptr |-> scan.i - 1]

\* r == LONG_MIN, r == LONG_MAX for the long r that holds an int32 value
IsLONG_MIN(r, bits) == bits = 32 /\ r = INT32_MIN

IsLONG_MAX(r, bits) == bits = 32 /\ r = INT32_MAX

(***************************************************************************)
(* Broker-resource pre-flight of AlterConfigs and DescribeConfigs.         *)
(* Returns [err, broker_id]; on an error *broker_idp is not written.       *)
(***************************************************************************)
RECURSIVE get_single_broker_id_loop(_, _, _, _)
get_single_broker_id_loop(configs, i, broker_id, bits) ==
    IF i > Len(configs) THEN [err |-> NO_ERROR, broker_id |-> broker_id]
    ELSE
      LET config == configs[i]
          conv   == strtol(config.name, bits)
          r      == conv.r
      IN IF config.restype # RESOURCE_BROKER
         THEN get_single_broker_id_loop(configs, i + 1, broker_id, bits)
         ELSE IF broker_id # -1
         THEN [err |-> ERR__CONFLICT, broker_id |-> NULLSTR]
         ELSE IF IsLONG_MIN(r, bits) \/ IsLONG_MAX(r, bits)
                 \/ conv.endptr = 0 \/ r < 0
         THEN [err |-> ERR__INVALID_ARG, broker_id |-> NULLSTR]
         ELSE get_single_broker_id_loop(configs, i + 1, r, bits)

rd_kafka_ConfigResource_get_single_broker_id(configs, bits) ==
    get_single_broker_id_loop(configs, 1, -1, bits)

(***************************************************************************)
(* Results (RD_KAFKA_OP_ADMIN_RESULT ops).                                 *)
(***************************************************************************)
\* a result op that does not carry the opaque of the request's options
rd_kafka_admin_result_new_no_opaque(rko_req) ==
    [opaque  |-> NULLSTR,
     reqtype |-> rko_req.rko_type,
     evtype  |-> rko_req.reply_event_type,
     err     |-> NO_ERROR,
     errstr  |-> NULLSTR,
     results |-> <<>>]

rd_kafka_admin_result_new(rko_req) ==
    [opaque  |-> rko_req.options.opaque,
     reqtype |-> rko_req.rko_type,
     evtype  |-> rko_req.reply_event_type,
     err     |-> NO_ERROR,
     errstr  |-> NULLSTR,
     results |-> <<>>]

rd_kafka_admin_result_set_err0(rko_result, err) ==
    [rko_result EXCEPT !.err = err, !.errstr = "errstr"]

(***************************************************************************)
(* Response parsers.  A reply buffer is [ApiVersion, cnt, elems]: cnt is   *)
(* the element count the response declares, elems the elements the buffer  *)
(* holds; reading past the buffer is a parse failure (buf_parse_fail,      *)
(* err = BAD_MSG).  A parser returns [err, result, elem_destroyed]: the     *)
(* last is the number of times the failure path destroys the element       *)
(* object (topic result, ConfigResource) it had in hand.                   *)
(***************************************************************************)
\* the error rd_kafka_buf_parse_fail leaves for the err_parse label to return
rd_kafka_buf_parse_fail == ERR__BAD_MSG

\* the err_parse label: the partial result is destroyed, none is returned
ParseFail ==
    [err |-> rd_kafka_buf_parse_fail, result |-> NULL, elem_destroyed |-> 0]

\* a parse failure on an element that the failure path destroys n times
ParseFailElem(n) == [ParseFail EXCEPT !.elem_destroyed = n]

ParseOk(rko_result, results) ==
    [err |-> NO_ERROR, result |-> [rko_result EXCEPT !.results = results],
     elem_destroyed |-> 0]

\* the rewrite done only for a negative operation_timeout
TopicErrorCode_negative_only(rko_req, error_code) ==
    IF error_code = ERR_REQUEST_TIMED_OUT
       /\ rd_kafka_confval_get_int(rko_req.options, "operation_timeout") < 0
    THEN NO_ERROR
    ELSE error_code

\* the element error after the in-progress rewrite for non-blocking requests
TopicErrorCode(rko_req, error_code) ==
    IF error_code = ERR_REQUEST_TIMED_OUT
       /\ rd_kafka_confval_get_int(rko_req.options, "operation_timeout") <= 0
    THEN NO_ERROR
    ELSE error_code

\* the errstr each topic parser hands to rd_kafka_topic_result_new
TopicErrstr(optype, ApiVersion, error_code, error_msg) ==
    IF error_code = NO_ERROR THEN NULLSTR
    ELSE IF optype = OP_CREATETOPICS /\ ApiVersion >= 1
            /\ error_msg # NULLSTR /\ error_msg # ""
         THEN error_msg
         ELSE "err2str"

\* the comparator each topic parser searches the args with
TopicCmp(optype) ==
    CASE optype = OP_CREATETOPICS     -> "rd_kafka_NewTopic_cmp"
      [] optype = OP_DELETETOPICS     -> "rd_kafka_DeleteTopic_cmp"
      [] optype = OP_CREATEPARTITIONS -> "rd_kafka_NewPartitions_cmp"

\* position of a response element in the args, as each parser looks it up
TopicOrigPos(rko_req, terr) ==
    LET skel == [topic |-> terr.topic]
    IN rd_list_index(rko_req.args, skel, TopicCmp(rko_req.rko_type))

RECURSIVE TopicsResponse_loop_in_order(_, _, _, _)
\* the loop of the topic parsers adding each result in the order of the
\* response, not at the position of its topic in the args
TopicsResponse_loop_in_order(rko_req, reply, i, results) ==
    IF i >= reply.cnt THEN ParseOk(rd_kafka_admin_result_new(rko_req), results)
    ELSE IF i >= Len(reply.elems) THEN ParseFail
    ELSE
      LET el         == reply.elems[i + 1]
          error_code == TopicErrorCode(rko_req, el.error_code)
          terr       == rd_kafka_topic_result_new(
                            el.topic, error_code,
                            TopicErrstr(rko_req.rko_type, reply.ApiVersion,
                                        error_code, el.error_msg))
          orig_pos   == TopicOrigPos(rko_req, terr)
      IN IF orig_pos = -1 THEN ParseFailElem(1)
         ELSE IF rd_list_elem(results, i) # NULL THEN ParseFailElem(1)
         ELSE TopicsResponse_loop_in_order(rko_req, reply, i + 1,
                                           rd_list_set(results, i, terr))

RECURSIVE TopicsResponse_loop(_, _, _, _)
TopicsResponse_loop(rko_req, reply, i, results) ==
    IF i >= reply.cnt THEN ParseOk(rd_kafka_admin_result_new(rko_req), results)
    ELSE IF i >= Len(reply.elems) THEN ParseFail
    ELSE
      LET el         == reply.elems[i + 1]
          error_code == TopicErrorCode(rko_req, el.error_code)
          terr       == rd_kafka_topic_result_new(
                            el.topic, error_code,
                            TopicErrstr(rko_req.rko_type, reply.ApiVersion,
                                        error_code, el.error_msg))
          orig_pos   == TopicOrigPos(rko_req, terr)
      IN IF orig_pos = -1
         THEN \* rd_kafka_topic_result_destroy(terr), then err_parse
              ParseFailElem(1)
         ELSE IF rd_list_elem(results, orig_pos) # NULL THEN ParseFailElem(1)
         ELSE TopicsResponse_loop(rko_req, reply, i + 1,
                                  rd_list_set(results, orig_pos, terr))

rd_kafka_CreateTopicsResponse_parse(rko_req, reply) ==
    IF reply.cnt > rd_list_cnt(rko_req.args) THEN ParseFail
    ELSE TopicsResponse_loop(rko_req, reply, 0, <<>>)

\* rd_kafka_DeleteTopicsResponse_parse rejecting a response that declares as
\* many elements as were requested
rd_kafka_DeleteTopicsResponse_parse_ge(rko_req, reply) ==
    IF reply.cnt >= rd_list_cnt(rko_req.args) THEN ParseFail
    ELSE TopicsResponse_loop(rko_req, reply, 0, <<>>)

rd_kafka_DeleteTopicsResponse_parse(rko_req, reply) ==
    IF reply.cnt > rd_list_cnt(rko_req.args) THEN ParseFail
    ELSE TopicsResponse_loop(rko_req, reply, 0, <<>>)

rd_kafka_CreatePartitionsResponse_parse(rko_req, reply) ==
    IF reply.cnt > rd_list_cnt(rko_req.args) THEN ParseFail
    ELSE TopicsResponse_loop(rko_req, reply, 0, <<>>)

\* NULL when the name is a null string; the source starts out unknown and
\* the flags cleared
rd_kafka_ConfigEntry_new0(name, value) ==
    IF name = NULLSTR THEN NULL
    ELSE [name |-> name, value |-> value,
          source |-> CONFIG_SOURCE_UNKNOWN_CONFIG,
          is_readonly |-> FALSE, is_default |-> FALSE,
          is_sensitive |-> FALSE, is_synonym |-> FALSE, synonyms |-> <<>>]

\* the limit on the synonyms of one config entry
MaxSynonyms == 100000

\* a synonym of a config entry (ApiVersion 1): NULL when its name is null
DescribeConfigs_synonym(raw) ==
    LET syn_entry == rd_kafka_ConfigEntry_new0(raw.name, raw.value)
    IN IF syn_entry = NULL THEN NULL
       ELSE [syn_entry EXCEPT !.source = raw.source, !.is_synonym = TRUE]

\* a config entry of a DescribeConfigs response element: v0 carries
\* is_default, v1 carries source and the synonyms.  NULL stands for a parse
\* failure while the entry was read.  config_name is not a null string in
\* the responses modelled.
DescribeConfigs_entry(ApiVersion, raw) ==
    LET new   == rd_kafka_ConfigEntry_new0(raw.name, raw.value)
        entry == [new EXCEPT !.is_readonly = raw.is_readonly,
                             !.is_sensitive = raw.is_sensitive]
    IN IF ApiVersion = 0
       THEN [entry EXCEPT !.is_default = raw.is_default,
                          !.source = IF raw.is_default
                                     THEN CONFIG_SOURCE_DEFAULT_CONFIG ELSE @]
       ELSE
         LET sourced == [entry EXCEPT
                           !.source = raw.source,
                           !.is_default =
                               (raw.source = CONFIG_SOURCE_DEFAULT_CONFIG)]
             syns == [si \in 1..Len(raw.synonyms) |->
                         DescribeConfigs_synonym(raw.synonyms[si])]
         IN IF ApiVersion = 1 /\ raw.syn_cnt > MaxSynonyms THEN NULL
            ELSE IF ApiVersion # 1 THEN sourced
            ELSE IF \E si \in 1..Len(syns) : syns[si] = NULL THEN NULL
            ELSE [sourced EXCEPT !.synonyms = syns]

\* the config entries of a response element; a NULL one failed to parse
DescribeConfigs_entries(ApiVersion, raws) ==
    [ci \in 1..Len(raws) |-> DescribeConfigs_entry(ApiVersion, raws[ci])]

ConfigErrstr(error_code, error_msg) ==
    IF error_code = NO_ERROR THEN NULLSTR
    ELSE IF error_msg = NULLSTR \/ error_msg = "" THEN "err2str" ELSE error_msg

ConfigOrigPos(rko_req, config) ==
    LET skel == [restype |-> config.restype, name |-> config.name]
    IN rd_list_index(rko_req.args, skel, "rd_kafka_ConfigResource_cmp")

\* the err_parse label of rd_kafka_DescribeConfigsResponse_parse destroys
\* the config its variable still points to; that of
\* rd_kafka_AlterConfigsResponse_parse has no such statement
ErrParseConfigDestroys(optype) ==
    IF optype = OP_DESCRIBECONFIGS THEN 1 ELSE 0

RECURSIVE ConfigsResponse_loop(_, _, _, _)
ConfigsResponse_loop(rko_req, reply, i, results) ==
    IF i >= reply.cnt THEN ParseOk(rd_kafka_admin_result_new(rko_req), results)
    ELSE IF i >= Len(reply.elems) THEN ParseFail
    ELSE
      LET el     == reply.elems[i + 1]
          errstr == ConfigErrstr(el.error_code, el.error_msg)
          new    == rd_kafka_ConfigResource_new(el.res_type, el.res_name)
      IN IF new = NULL
         THEN \* unsupported ConfigResource: ignoring
              ConfigsResponse_loop(rko_req, reply, i + 1, results)
         ELSE
           LET entries ==
                 IF rko_req.rko_type = OP_DESCRIBECONFIGS
                 THEN DescribeConfigs_entries(reply.ApiVersion, el.entries)
                 ELSE <<>>
               config ==
                 [new EXCEPT !.err = el.error_code, !.errstr = errstr,
                             !.config = entries]
               orig_pos == ConfigOrigPos(rko_req, config)
           IN IF \E ci \in 1..Len(entries) : entries[ci] = NULL
              THEN \* err_parse destroys the entry in hand and the config
                   ParseFailElem(ErrParseConfigDestroys(rko_req.rko_type))
              ELSE IF orig_pos = -1
              THEN \* rd_kafka_ConfigResource_destroy(config), then err_parse
                   ParseFailElem(1 + ErrParseConfigDestroys(rko_req.rko_type))
              ELSE IF rd_list_elem(results, orig_pos) # NULL
              THEN ParseFailElem(1 + ErrParseConfigDestroys(rko_req.rko_type))
              ELSE ConfigsResponse_loop(rko_req, reply, i + 1,
                                        rd_list_set(results, orig_pos, config))

rd_kafka_AlterConfigsResponse_parse(rko_req, reply) ==
    IF reply.cnt > rd_list_cnt(rko_req.args)
    THEN [err |-> ERR__BAD_MSG, result |-> NULL, elem_destroyed |-> 0]
    ELSE ConfigsResponse_loop(rko_req, reply, 0, <<>>)

rd_kafka_DescribeConfigsResponse_parse(rko_req, reply) ==
    IF reply.cnt > rd_list_cnt(rko_req.args) THEN ParseFail
    ELSE ConfigsResponse_loop(rko_req, reply, 0, <<>>)

\* what the build may do after a parser destroyed an object twice: the
\* allocator aborts the process (TRUE) or execution goes on (FALSE)
DoubleFreeOutcomes(p) ==
    IF p.elem_destroyed > 1 THEN {FALSE, TRUE} ELSE {FALSE}

\* cbs->parse of the request's worker callbacks
cbs_parse(rko_req, reply) ==
    CASE rko_req.rko_type = OP_CREATETOPICS ->
             rd_kafka_CreateTopicsResponse_parse(rko_req, reply)
      [] rko_req.rko_type = OP_DELETETOPICS ->
             rd_kafka_DeleteTopicsResponse_parse(rko_req, reply)
      [] rko_req.rko_type = OP_CREATEPARTITIONS ->
             rd_kafka_CreatePartitionsResponse_parse(rko_req, reply)
      [] rko_req.rko_type = OP_ALTERCONFIGS ->
             rd_kafka_AlterConfigsResponse_parse(rko_req, reply)
      [] rko_req.rko_type = OP_DESCRIBECONFIGS ->
             rd_kafka_DescribeConfigsResponse_parse(rko_req, reply)

(***************************************************************************)
(* State.                                                                  *)
(***************************************************************************)
VARIABLES
    rko,          \* [Reqs -> the admin request op of each submission]
    eonce,        \* [Reqs -> its enqueue-once notifier: refcnt and payload]
    rk_ops,       \* the main ops queue, served by the rdkafka main thread
    replyq,       \* [Reqs -> result events enqueued on the application's queue]
    now,          \* the monotonic clock
    terminating,  \* rd_kafka_terminating(rk)
    up,           \* [Targets -> is that broker (-1: the controller) up]
    waiters,      \* eonces registered for the next broker state change
    wire,         \* [Reqs -> "none" | "sent" | "replied"], the protocol request
    long_bits,    \* width of the platform's long
    pf,           \* a pre-flight on its own: [args, out]
    pr,           \* a response parser on its own: [req, reply, out]
    ao,           \* an AdminOptions object on its own: [options, call, ret]
    ra            \* a NewTopic or NewPartitions object on its own:
                  \* [obj, call, ret, before, aborted, ncalls, given]

vars == <<rko, eonce, rk_ops, replyq, now, terminating, up, waiters, wire,
          long_bits, pf, pr, ao, ra>>

(***************************************************************************)
(* The enqueue-once notifier.  e.rko tells whether the payload slot still  *)
(* holds the rko.                                                          *)
(***************************************************************************)
rd_kafka_enq_once_new == [refcnt |-> 1, rko |-> TRUE]

rd_kafka_enq_once_add_source(e) == [e EXCEPT !.refcnt = @ + 1]

rd_kafka_enq_once_del_source(e) == [e EXCEPT !.refcnt = @ - 1]

rd_kafka_enq_once_reenable(e) == [e EXCEPT !.rko = TRUE]

rd_kafka_enq_once_destroy(e) == [e EXCEPT !.refcnt = @ - 1, !.rko = FALSE]

\* the payload is returned by the caller reading e.rko before the call
rd_kafka_enq_once_disable(e) == [e EXCEPT !.refcnt = @ - 1, !.rko = FALSE]

\* [e, k, enq]: the notifier and the rko afterwards, and whether the rko is
\* to be enqueued on rk_ops
rd_kafka_enq_once_trigger(e, k, err) ==
    IF e.rko
    THEN [e   |-> [e EXCEPT !.refcnt = @ - 1, !.rko = FALSE],
          k   |-> [k EXCEPT !.rko_err = err],
          enq |-> TRUE]
    ELSE [e |-> [e EXCEPT !.refcnt = @ - 1], k |-> k, enq |-> FALSE]

(***************************************************************************)
(* The request op.                                                         *)
(***************************************************************************)
NoOptions ==
    [request_timeout |-> 0, operation_timeout |-> 0, validate_only |-> 0,
     incremental |-> 0, broker |-> -1, opaque |-> NULLSTR]

\* a slot of rko before its submission
NoRko ==
    [mem |-> "none", rko_type |-> NULLSTR, reply_event_type |-> <<>>,
     options |-> NoOptions, args |-> <<>>, broker_id |-> -1,
     abs_timeout |-> 0, state |-> STATE_INIT, tmr |-> "idle",
     tmr_next |-> 0, eonce |-> FALSE, reply_buf |-> NULL,
     rko_err |-> NO_ERROR, exit |-> "none", path |-> <<STATE_INIT>>,
     replyq |-> NULLSTR, rkb_held |-> 0]

rd_timeout_init(clock, timeout_ms) == clock + timeout_ms

rd_timeout_remains_us(clock, abs_timeout) == abs_timeout - clock

rd_kafka_admin_request_op_new(optype, reply_event_type, options, rkqu, clock) ==
    [NoRko EXCEPT
       !.mem = "alloc",
       !.rko_type = optype,
       !.reply_event_type = reply_event_type,
       !.options = options,
       !.broker_id = -1,
       !.abs_timeout =
           rd_timeout_init(clock,
                           rd_kafka_confval_get_int(options, "request_timeout")),
       !.eonce = TRUE,
       !.replyq = rkqu,
       !.state = STATE_INIT]

(***************************************************************************)
(* The worker.  It runs on a context c: the rko k, its notifier e, the     *)
(* results it enqueues on the application's queue (post), whether the      *)
(* broker code registered the eonce for a state change (wait), whether a   *)
(* protocol request was handed to the broker (send) and the value it       *)
(* returns (res).  k.exit names the place the worker left from and k.path  *)
(* lists the states the rko has been in.                                   *)
(***************************************************************************)
Ctx(k, e) ==
    [k |-> k, e |-> e, post |-> <<>>, wait |-> FALSE, send |-> FALSE,
     res |-> OP_RES_KEEP]

\* rd_kafka_admin_result_fail without its rd_kafka_admin_result_enq
rd_kafka_admin_result_fail_noenq(c, err) == c

rd_kafka_admin_result_fail(c, err) ==
    [c EXCEPT !.post =
        Append(@, rd_kafka_admin_result_set_err0(
                      rd_kafka_admin_result_new(c.k), err))]

rd_kafka_admin_result_enq(c, rko_result) ==
    [c EXCEPT !.post = Append(@, rko_result)]

\* rd_kafka_timer_stop: 1 if the timer was started and its callback has not
\* fired
rd_kafka_timer_stop(k) == k.tmr = "armed"

\* the common destroy that drops its reference to the eonce and leaves the
\* rko in the payload slot
rd_kafka_admin_common_worker_destroy_no_clear(c) ==
    LET timer_was_stopped == rd_kafka_timer_stop(c.k)
        k1 == [c.k EXCEPT !.tmr = IF timer_was_stopped THEN "stopped" ELSE @]
        e1 == IF timer_was_stopped
              THEN rd_kafka_enq_once_del_source(c.e) ELSE c.e
    IN IF c.k.eonce
       THEN [c EXCEPT !.k = [k1 EXCEPT !.eonce = FALSE],
                      !.e = rd_kafka_enq_once_del_source(e1)]
       ELSE [c EXCEPT !.k = k1]

\* the common destroy that keeps the reference of the timer it stopped
rd_kafka_admin_common_worker_destroy_no_del_source(c) ==
    LET timer_was_stopped == rd_kafka_timer_stop(c.k)
        k1 == [c.k EXCEPT !.tmr = IF timer_was_stopped THEN "stopped" ELSE @]
    IN IF c.k.eonce
       THEN [c EXCEPT !.k = [k1 EXCEPT !.eonce = FALSE],
                      !.e = rd_kafka_enq_once_destroy(c.e)]
       ELSE [c EXCEPT !.k = k1]

\* the common destroy that removes the source of the timer whatever
\* rd_kafka_timer_stop returned
rd_kafka_admin_common_worker_destroy_always_del(c) ==
    LET timer_was_stopped == rd_kafka_timer_stop(c.k)
        k1 == [c.k EXCEPT !.tmr = IF timer_was_stopped THEN "stopped" ELSE @]
        e1 == rd_kafka_enq_once_del_source(c.e)
    IN IF c.k.eonce
       THEN [c EXCEPT !.k = [k1 EXCEPT !.eonce = FALSE],
                      !.e = rd_kafka_enq_once_destroy(e1)]
       ELSE [c EXCEPT !.k = k1]

rd_kafka_admin_common_worker_destroy(c) ==
    LET timer_was_stopped == rd_kafka_timer_stop(c.k)
        k1 == [c.k EXCEPT !.tmr = IF timer_was_stopped THEN "stopped" ELSE @]
        e1 == IF timer_was_stopped
              THEN rd_kafka_enq_once_del_source(c.e) ELSE c.e
    IN IF c.k.eonce
       THEN [c EXCEPT !.k = [k1 EXCEPT !.eonce = FALSE],
                      !.e = rd_kafka_enq_once_destroy(e1)]
       ELSE [c EXCEPT !.k = k1]

\* the destroy: label
WorkerDestroy(c, exit) ==
    [rd_kafka_admin_common_worker_destroy(c) EXCEPT
        !.res = OP_RES_HANDLED, !.k.exit = exit]

WorkerKeep(c, exit) == [c EXCEPT !.res = OP_RES_KEEP, !.k.exit = exit]

\* case RD_KAFKA_ADMIN_STATE_WAIT_RESPONSE without the failure result of a
\* parse error
WorkerWaitResponse_silent_fail(c, env) ==
    IF c.k.reply_buf = NULL
    THEN WorkerKeep(c, "null_reply_deref")
    ELSE
      LET p == cbs_parse(c.k, c.k.reply_buf)
      IN IF p.elem_destroyed > 1 /\ env.abort
         THEN WorkerKeep(c, "double_free_abort")
         ELSE IF p.err # NO_ERROR
         THEN WorkerDestroy(c, "parse_failed")
         ELSE WorkerDestroy(rd_kafka_admin_result_enq(c, p.result), "parsed")

\* case RD_KAFKA_ADMIN_STATE_WAIT_RESPONSE sending the request again when the
\* reply does not parse
WorkerWaitResponse_resends(c, env) ==
    IF c.k.reply_buf = NULL
    THEN WorkerKeep(c, "null_reply_deref")
    ELSE
      LET p == cbs_parse(c.k, c.k.reply_buf)
      IN IF p.elem_destroyed > 1 /\ env.abort
         THEN WorkerKeep(c, "double_free_abort")
         ELSE IF p.err # NO_ERROR
         THEN WorkerKeep([c EXCEPT !.e = rd_kafka_enq_once_add_source(
                                             rd_kafka_enq_once_reenable(@)),
                                   !.send = TRUE], "sent")
         ELSE WorkerDestroy(rd_kafka_admin_result_enq(c, p.result), "parsed")

\* case RD_KAFKA_ADMIN_STATE_WAIT_RESPONSE
WorkerWaitResponse(c, env) ==
    IF c.k.reply_buf = NULL
    THEN \* the parser dereferences the reply buffer
         WorkerKeep(c, "null_reply_deref")
    ELSE
      LET p == cbs_parse(c.k, c.k.reply_buf)
      IN IF p.elem_destroyed > 1 /\ env.abort
         THEN \* the parser destroyed an object twice and the process died
              WorkerKeep(c, "double_free_abort")
         ELSE IF p.err # NO_ERROR
         THEN WorkerDestroy(rd_kafka_admin_result_fail(c, p.err),
                            "parse_failed")
         ELSE WorkerDestroy(rd_kafka_admin_result_enq(c, p.result), "parsed")

\* case RD_KAFKA_ADMIN_STATE_CONSTRUCT_REQUEST starting over from INIT when
\* cbs->request fails
WorkerConstructRequest_restarts(c, rkb, berr) ==
    IF ~rkb THEN WorkerKeep(c, "assert_rkb")
    ELSE
      LET c1 == [c EXCEPT !.e = rd_kafka_enq_once_add_source(@),
                          !.k.rkb_held = @ - 1]
      IN IF berr # NO_ERROR
         THEN WorkerKeep(
                  [c1 EXCEPT !.e = rd_kafka_enq_once_del_source(@),
                             !.k.state = STATE_INIT,
                             !.k.path = <<STATE_INIT>>],
                  "waiting")
         ELSE WorkerKeep([c1 EXCEPT !.k.state = STATE_WAIT_RESPONSE,
                                    !.k.path = Append(@, STATE_WAIT_RESPONSE),
                                    !.send = TRUE], "sent")

\* case RD_KAFKA_ADMIN_STATE_CONSTRUCT_REQUEST returning KEEP after the
\* failure of cbs->request
WorkerConstructRequest_keeps_failed(c, rkb, berr) ==
    IF ~rkb THEN WorkerKeep(c, "assert_rkb")
    ELSE
      LET c1 == [c EXCEPT !.e = rd_kafka_enq_once_add_source(@),
                          !.k.rkb_held = @ - 1]
      IN IF berr # NO_ERROR
         THEN WorkerKeep(
                  rd_kafka_admin_result_fail(
                      [c1 EXCEPT !.e = rd_kafka_enq_once_del_source(@)], berr),
                  "request_failed")
         ELSE WorkerKeep([c1 EXCEPT !.k.state = STATE_WAIT_RESPONSE,
                                    !.k.path = Append(@, STATE_WAIT_RESPONSE),
                                    !.send = TRUE], "sent")

\* case RD_KAFKA_ADMIN_STATE_CONSTRUCT_REQUEST leaving the "send" source on
\* the eonce after the failure of cbs->request
WorkerConstructRequest_keeps_source(c, rkb, berr) ==
    IF ~rkb THEN WorkerKeep(c, "assert_rkb")
    ELSE
      LET c1 == [c EXCEPT !.e = rd_kafka_enq_once_add_source(@),
                          !.k.rkb_held = @ - 1]
      IN IF berr # NO_ERROR
         THEN WorkerDestroy(rd_kafka_admin_result_fail(c1, berr),
                            "request_failed")
         ELSE WorkerKeep([c1 EXCEPT !.k.state = STATE_WAIT_RESPONSE,
                                    !.k.path = Append(@, STATE_WAIT_RESPONSE),
                                    !.send = TRUE], "sent")

\* case RD_KAFKA_ADMIN_STATE_CONSTRUCT_REQUEST with rd_kafka_broker_destroy
\* only where the request was sent
WorkerConstructRequest_holds_broker(c, rkb, berr) ==
    IF ~rkb THEN WorkerKeep(c, "assert_rkb")
    ELSE
      LET c1 == [c EXCEPT !.e = rd_kafka_enq_once_add_source(@)]
      IN IF berr # NO_ERROR
         THEN WorkerDestroy(
                  rd_kafka_admin_result_fail(
                      [c1 EXCEPT !.e = rd_kafka_enq_once_del_source(@)], berr),
                  "request_failed")
         ELSE WorkerKeep([c1 EXCEPT !.k.state = STATE_WAIT_RESPONSE,
                                    !.k.path = Append(@, STATE_WAIT_RESPONSE),
                                    !.k.rkb_held = @ - 1,
                                    !.send = TRUE], "sent")

\* case RD_KAFKA_ADMIN_STATE_CONSTRUCT_REQUEST; rkb tells whether the broker
\* lookup of this invocation set the broker, berr is what cbs->request returns
\* (c1: after add_source "send", cbs->request and rd_kafka_broker_destroy)
WorkerConstructRequest(c, rkb, berr) ==
    IF ~rkb THEN WorkerKeep(c, "assert_rkb")
    ELSE
      LET c1 == [c EXCEPT !.e = rd_kafka_enq_once_add_source(@),
                          !.k.rkb_held = @ - 1]
      IN IF berr # NO_ERROR
         THEN WorkerDestroy(
                  rd_kafka_admin_result_fail(
                      [c1 EXCEPT !.e = rd_kafka_enq_once_del_source(@)], berr),
                  "request_failed")
         ELSE WorkerKeep([c1 EXCEPT !.k.state = STATE_WAIT_RESPONSE,
                                    !.k.path = Append(@, STATE_WAIT_RESPONSE),
                                    !.send = TRUE], "sent")

\* the lookup without rd_kafka_enq_once_reenable
WorkerLookup_no_reenable(c, found) ==
    IF found THEN [c EXCEPT !.k.rkb_held = @ + 1]
    ELSE [c EXCEPT !.e = rd_kafka_enq_once_add_source(@), !.wait = TRUE]

\* rd_kafka_admin_common_get_broker / _get_controller: the eonce is
\* re-enabled, then the broker is returned with its refcount increased if it
\* is up (found), or the eonce is registered for the next broker state
\* change; k.rkb_held counts the broker references the worker holds
WorkerLookup(c, found) ==
    LET c1 == [c EXCEPT !.e = rd_kafka_enq_once_reenable(@)]
    IN IF found THEN [c1 EXCEPT !.k.rkb_held = @ + 1]
       ELSE [c1 EXCEPT !.e = rd_kafka_enq_once_add_source(@), !.wait = TRUE]

rd_kafka_admin_common_get_broker(c, env) ==
    WorkerLookup(c, env.up[c.k.broker_id])

rd_kafka_admin_common_get_controller(c, env) ==
    WorkerLookup(c, env.up[-1])

\* case RD_KAFKA_ADMIN_STATE_WAIT_BROKER, _WAIT_CONTROLLER moving to
\* CONSTRUCT_REQUEST before it looks at what the lookup returned
WorkerWaitBroker_state_first(c, env) ==
    LET c1 == IF c.k.state = STATE_WAIT_BROKER
              THEN rd_kafka_admin_common_get_broker(c, env)
              ELSE rd_kafka_admin_common_get_controller(c, env)
        c2 == [c1 EXCEPT !.k.state = STATE_CONSTRUCT_REQUEST,
                         !.k.path = Append(@, STATE_CONSTRUCT_REQUEST)]
    IN IF c1.wait
       THEN WorkerKeep(c2, "waiting")
       ELSE WorkerConstructRequest(c2, TRUE, env.berr)

\* case RD_KAFKA_ADMIN_STATE_WAIT_BROKER, _WAIT_CONTROLLER
WorkerWaitBroker(c, env) ==
    LET c1 == IF c.k.state = STATE_WAIT_BROKER
              THEN rd_kafka_admin_common_get_broker(c, env)
              ELSE rd_kafka_admin_common_get_controller(c, env)
    IN IF c1.wait
       THEN WorkerKeep(c1, "waiting")
       ELSE WorkerConstructRequest(
                [c1 EXCEPT !.k.state = STATE_CONSTRUCT_REQUEST,
                           !.k.path = Append(@, STATE_CONSTRUCT_REQUEST)],
                TRUE, env.berr)

\* case RD_KAFKA_ADMIN_STATE_INIT without the start of the timeout timer
WorkerInit_no_timer(c, env, timeout_in) ==
    LET broker_id == rd_kafka_confval_get_int(c.k.options, "broker")
        k1 == [c.k EXCEPT !.broker_id = IF broker_id # -1 THEN broker_id ELSE @]
        st == IF k1.broker_id # -1
              THEN STATE_WAIT_BROKER ELSE STATE_WAIT_CONTROLLER
        k2 == [k1 EXCEPT !.state = st, !.path = Append(@, st)]
    IN WorkerWaitBroker([c EXCEPT !.k = k2], env)

\* case RD_KAFKA_ADMIN_STATE_INIT without its goto redo
WorkerInit_no_redo(c, env, timeout_in) ==
    LET broker_id == rd_kafka_confval_get_int(c.k.options, "broker")
        k1 == [c.k EXCEPT !.tmr = "armed",
                          !.tmr_next = env.now + timeout_in,
                          !.broker_id = IF broker_id # -1 THEN broker_id ELSE @]
        st == IF k1.broker_id # -1
              THEN STATE_WAIT_BROKER ELSE STATE_WAIT_CONTROLLER
        k2 == [k1 EXCEPT !.state = st, !.path = Append(@, st)]
    IN WorkerKeep([c EXCEPT !.k = k2,
                            !.e = rd_kafka_enq_once_add_source(@)], "waiting")

\* case RD_KAFKA_ADMIN_STATE_INIT moving the broker id out of the options
WorkerInit_moves_broker(c, env, timeout_in) ==
    LET broker_id == rd_kafka_confval_get_int(c.k.options, "broker")
        k1 == [c.k EXCEPT !.tmr = "armed",
                          !.tmr_next = env.now + timeout_in,
                          !.options.broker = -1,
                          !.broker_id = IF broker_id # -1 THEN broker_id ELSE @]
        st == IF k1.broker_id # -1
              THEN STATE_WAIT_BROKER ELSE STATE_WAIT_CONTROLLER
        k2 == [k1 EXCEPT !.state = st, !.path = Append(@, st)]
    IN WorkerWaitBroker([c EXCEPT !.k = k2,
                                  !.e = rd_kafka_enq_once_add_source(@)],
                        env)

\* case RD_KAFKA_ADMIN_STATE_INIT choosing the wait state by the broker id of
\* the options alone
WorkerInit_state_from_options(c, env, timeout_in) ==
    LET broker_id == rd_kafka_confval_get_int(c.k.options, "broker")
        k1 == [c.k EXCEPT !.tmr = "armed",
                          !.tmr_next = env.now + timeout_in,
                          !.broker_id = IF broker_id # -1 THEN broker_id ELSE @]
        st == IF broker_id # -1
              THEN STATE_WAIT_BROKER ELSE STATE_WAIT_CONTROLLER
        k2 == [k1 EXCEPT !.state = st, !.path = Append(@, st)]
    IN WorkerWaitBroker([c EXCEPT !.k = k2,
                                  !.e = rd_kafka_enq_once_add_source(@)],
                        env)

\* case RD_KAFKA_ADMIN_STATE_INIT
WorkerInit(c, env, timeout_in) ==
    LET broker_id == rd_kafka_confval_get_int(c.k.options, "broker")
        k1 == [c.k EXCEPT !.tmr = "armed",
                          !.tmr_next = env.now + timeout_in,
                          !.broker_id = IF broker_id # -1 THEN broker_id ELSE @]
        st == IF k1.broker_id # -1
              THEN STATE_WAIT_BROKER ELSE STATE_WAIT_CONTROLLER
        k2 == [k1 EXCEPT !.state = st, !.path = Append(@, st)]
    IN WorkerWaitBroker([c EXCEPT !.k = k2,
                                  !.e = rd_kafka_enq_once_add_source(@)],
                        env)

\* rd_kafka_admin_worker without its check for ERR__DESTROY
rd_kafka_admin_worker_no_destroy_check(c, env) ==
    LET timeout_in == rd_timeout_remains_us(env.now, c.k.abs_timeout)
    IN IF env.terminating THEN WorkerDestroy(c, "terminating")
       ELSE IF c.k.rko_err # NO_ERROR
       THEN WorkerDestroy(rd_kafka_admin_result_fail(c, c.k.rko_err), "failed")
       ELSE IF timeout_in <= 0
       THEN WorkerDestroy(rd_kafka_admin_result_fail(c, ERR__TIMED_OUT),
                          "timed_out")
       ELSE CASE c.k.state = STATE_INIT -> WorkerInit(c, env, timeout_in)
              [] c.k.state \in {STATE_WAIT_BROKER, STATE_WAIT_CONTROLLER} ->
                     WorkerWaitBroker(c, env)
              [] c.k.state = STATE_CONSTRUCT_REQUEST ->
                     WorkerConstructRequest(c, FALSE, env.berr)
              [] c.k.state = STATE_WAIT_RESPONSE -> WorkerWaitResponse(c, env)

\* rd_kafka_admin_worker without its check of the deadline
rd_kafka_admin_worker_no_deadline_check(c, env) ==
    LET timeout_in == rd_timeout_remains_us(env.now, c.k.abs_timeout)
    IN IF env.terminating THEN WorkerDestroy(c, "terminating")
       ELSE IF c.k.rko_err = ERR__DESTROY THEN WorkerDestroy(c, "destroy")
       ELSE IF c.k.rko_err # NO_ERROR
       THEN WorkerDestroy(rd_kafka_admin_result_fail(c, c.k.rko_err), "failed")
       ELSE CASE c.k.state = STATE_INIT -> WorkerInit(c, env, timeout_in)
              [] c.k.state \in {STATE_WAIT_BROKER, STATE_WAIT_CONTROLLER} ->
                     WorkerWaitBroker(c, env)
              [] c.k.state = STATE_CONSTRUCT_REQUEST ->
                     WorkerConstructRequest(c, FALSE, env.berr)
              [] c.k.state = STATE_WAIT_RESPONSE -> WorkerWaitResponse(c, env)

\* rd_kafka_admin_worker checking the deadline before the error on the rko
rd_kafka_admin_worker_deadline_first(c, env) ==
    LET timeout_in == rd_timeout_remains_us(env.now, c.k.abs_timeout)
    IN IF env.terminating THEN WorkerDestroy(c, "terminating")
       ELSE IF c.k.rko_err = ERR__DESTROY THEN WorkerDestroy(c, "destroy")
       ELSE IF timeout_in <= 0
       THEN WorkerDestroy(rd_kafka_admin_result_fail(c, ERR__TIMED_OUT),
                          "timed_out")
       ELSE IF c.k.rko_err # NO_ERROR
       THEN WorkerDestroy(rd_kafka_admin_result_fail(c, c.k.rko_err), "failed")
       ELSE CASE c.k.state = STATE_INIT -> WorkerInit(c, env, timeout_in)
              [] c.k.state \in {STATE_WAIT_BROKER, STATE_WAIT_CONTROLLER} ->
                     WorkerWaitBroker(c, env)
              [] c.k.state = STATE_CONSTRUCT_REQUEST ->
                     WorkerConstructRequest(c, FALSE, env.berr)
              [] c.k.state = STATE_WAIT_RESPONSE -> WorkerWaitResponse(c, env)

\* rd_kafka_admin_worker checking the deadline in every state but
\* WAIT_RESPONSE
rd_kafka_admin_worker_deadline_skips_response(c, env) ==
    LET timeout_in == rd_timeout_remains_us(env.now, c.k.abs_timeout)
    IN IF env.terminating THEN WorkerDestroy(c, "terminating")
       ELSE IF c.k.rko_err = ERR__DESTROY THEN WorkerDestroy(c, "destroy")
       ELSE IF c.k.rko_err # NO_ERROR
       THEN WorkerDestroy(rd_kafka_admin_result_fail(c, c.k.rko_err), "failed")
       ELSE IF timeout_in <= 0 /\ c.k.state # STATE_WAIT_RESPONSE
       THEN WorkerDestroy(rd_kafka_admin_result_fail(c, ERR__TIMED_OUT),
                          "timed_out")
       ELSE CASE c.k.state = STATE_INIT -> WorkerInit(c, env, timeout_in)
              [] c.k.state \in {STATE_WAIT_BROKER, STATE_WAIT_CONTROLLER} ->
                     WorkerWaitBroker(c, env)
              [] c.k.state = STATE_CONSTRUCT_REQUEST ->
                     WorkerConstructRequest(c, FALSE, env.berr)
              [] c.k.state = STATE_WAIT_RESPONSE -> WorkerWaitResponse(c, env)

\* env: [terminating, now, up, berr, abort]
rd_kafka_admin_worker(c, env) ==
    LET timeout_in == rd_timeout_remains_us(env.now, c.k.abs_timeout)
    IN IF env.terminating THEN WorkerDestroy(c, "terminating")
       ELSE IF c.k.rko_err = ERR__DESTROY THEN WorkerDestroy(c, "destroy")
       ELSE IF c.k.rko_err # NO_ERROR
       THEN WorkerDestroy(rd_kafka_admin_result_fail(c, c.k.rko_err), "failed")
       ELSE IF timeout_in <= 0
       THEN WorkerDestroy(rd_kafka_admin_result_fail(c, ERR__TIMED_OUT),
                          "timed_out")
       ELSE CASE c.k.state = STATE_INIT -> WorkerInit(c, env, timeout_in)
              [] c.k.state \in {STATE_WAIT_BROKER, STATE_WAIT_CONTROLLER} ->
                     WorkerWaitBroker(c, env)
              [] c.k.state = STATE_CONSTRUCT_REQUEST ->
                     WorkerConstructRequest(c, FALSE, env.berr)
              [] c.k.state = STATE_WAIT_RESPONSE -> WorkerWaitResponse(c, env)

(***************************************************************************)
(* Inputs of the engine.                                                   *)
(***************************************************************************)
Targets == {-1, 1}

Opts(request_timeout, broker) ==
    [NoOptions EXCEPT !.request_timeout = request_timeout, !.broker = broker,
                      !.opaque = "opq"]

ConfigResource(restype, name) == [restype |-> restype, name |-> name]

TopicAB == <<[topic |-> "a"], [topic |-> "b"]>>

\* the submissions of each API: [args, options]
CreateTopicsInputs == {[args |-> TopicAB, options |-> Opts(1, -1)]}

DeleteTopicsInputs == {[args |-> TopicAB, options |-> Opts(0, -1)]}

CreatePartitionsInputs == {[args |-> TopicAB, options |-> Opts(1, 1)]}

AlterConfigsInputs ==
    {[args |-> <<ConfigResource(RESOURCE_TOPIC, <<"a">>),
                 ConfigResource(RESOURCE_BROKER, <<"1">>)>>,
      options |-> Opts(1, -1)],
     [args |-> <<ConfigResource(RESOURCE_BROKER, <<"1">>),
                 ConfigResource(RESOURCE_BROKER, <<"2">>)>>,
      options |-> Opts(1, -1)]}

DescribeConfigsInputs ==
    {[args |-> <<ConfigResource(RESOURCE_TOPIC, <<"a">>),
                 ConfigResource(RESOURCE_BROKER, <<"2">>)>>,
      options |-> Opts(1, 1)],
     [args |-> <<ConfigResource(RESOURCE_BROKER, <<"1">>),
                 ConfigResource(RESOURCE_BROKER, <<"x">>)>>,
      options |-> Opts(0, 1)],
     [args |-> <<ConfigResource(RESOURCE_BROKER, <<"x">>)>>,
      options |-> Opts(1, -1)]}

\* what cbs->request may return
RequestErrs == {NO_ERROR, ERR__UNSUPPORTED_FEATURE}

Reverse(seq) == [j \in 1..Len(seq) |-> seq[Len(seq) + 1 - j]]

\* the response element that echoes an arg
EchoElem(optype, arg) ==
    IF optype \in TopicOps
    THEN [topic |-> arg.topic, error_code |-> NO_ERROR, error_msg |-> NULLSTR]
    ELSE [error_code |-> NO_ERROR, error_msg |-> NULLSTR,
          res_type |-> arg.restype, res_name |-> arg.name, entries |-> <<>>]

\* the reply buffers a broker may answer a request with: its args echoed in
\* reverse order, and a reply that declares one element too many
EngineReplies(k) ==
    LET echo == Reverse([j \in 1..Len(k.args) |->
                            EchoElem(k.rko_type, k.args[j])])
    IN {[ApiVersion |-> 1, cnt |-> Len(echo), elems |-> echo],
        [ApiVersion |-> 1, cnt |-> Len(echo) + 1, elems |-> echo]}

\* the errors a response may be delivered with instead of a reply
ResponseErrs == {ERR__TRANSPORT, ERR__DESTROY}

(***************************************************************************)
(* Actions.                                                                *)
(***************************************************************************)
\* requests are submitted in the order of their slots
NextSlot(r) ==
    /\ rko[r].mem = "none"
    /\ \A q \in Reqs : q < r => rko[q].mem # "none"

\* the constructor of a topic API: the op with its copy of the args is
\* enqueued on rk_ops
SubmitTopics(r, optype, args, options) ==
    /\ NextSlot(r)
    /\ ~terminating
    /\ now + options.request_timeout <= MaxTime
    /\ rko' = [rko EXCEPT ![r] =
                 [rd_kafka_admin_request_op_new(optype, EventType(optype),
                                                options, "rkqu", now)
                    EXCEPT !.args = args]]
    /\ eonce' = [eonce EXCEPT ![r] = rd_kafka_enq_once_new]
    /\ rk_ops' = Append(rk_ops, [type |-> "op", r |-> r])
    /\ UNCHANGED <<replyq, now, terminating, up, waiters, wire, long_bits, pf, pr, ao, ra>>

rd_kafka_CreateTopics(r) ==
    \E inp \in CreateTopicsInputs :
        SubmitTopics(r, OP_CREATETOPICS, inp.args, inp.options)

rd_kafka_DeleteTopics(r) ==
    \E inp \in DeleteTopicsInputs :
        SubmitTopics(r, OP_DELETETOPICS, inp.args, inp.options)

rd_kafka_CreatePartitions(r) ==
    \E inp \in CreatePartitionsInputs :
        SubmitTopics(r, OP_CREATEPARTITIONS, inp.args, inp.options)

\* the constructor of a config API without the return after a failed
\* pre-flight
SubmitConfigs_no_return(r, optype, args, options) ==
    LET k0 == [rd_kafka_admin_request_op_new(optype, EventType(optype),
                                             options, "rkqu", now)
                 EXCEPT !.args = args]
        pre == rd_kafka_ConfigResource_get_single_broker_id(args, long_bits)
        c  == rd_kafka_admin_common_worker_destroy(
                  rd_kafka_admin_result_fail(
                      Ctx(k0, rd_kafka_enq_once_new), pre.err))
    IN /\ NextSlot(r)
       /\ ~terminating
       /\ now + options.request_timeout <= MaxTime
       /\ IF pre.err # NO_ERROR
          THEN /\ rko' = [rko EXCEPT ![r] = c.k]
               /\ eonce' = [eonce EXCEPT ![r] = c.e]
               /\ replyq' = [replyq EXCEPT ![r] = @ \o c.post]
          ELSE /\ rko' = [rko EXCEPT ![r] =
                            [k0 EXCEPT !.broker_id = pre.broker_id]]
               /\ eonce' = [eonce EXCEPT ![r] = rd_kafka_enq_once_new]
               /\ UNCHANGED replyq
       /\ rk_ops' = Append(rk_ops, [type |-> "op", r |-> r])
       /\ UNCHANGED <<now, terminating, up, waiters, wire, long_bits, pf, pr, ao, ra>>

\* the constructor of a config API: the pre-flight either sets the target
\* broker and the op is enqueued, or the op is failed and dismantled here
SubmitConfigs(r, optype, args, options) ==
    LET k0 == [rd_kafka_admin_request_op_new(optype, EventType(optype),
                                             options, "rkqu", now)
                 EXCEPT !.args = args]
        pre == rd_kafka_ConfigResource_get_single_broker_id(args, long_bits)
        c  == rd_kafka_admin_common_worker_destroy(
                  rd_kafka_admin_result_fail(
                      Ctx(k0, rd_kafka_enq_once_new), pre.err))
    IN /\ NextSlot(r)
       /\ ~terminating
       /\ now + options.request_timeout <= MaxTime
       /\ IF pre.err # NO_ERROR
          THEN /\ rko' = [rko EXCEPT ![r] = c.k]
               /\ eonce' = [eonce EXCEPT ![r] = c.e]
               /\ replyq' = [replyq EXCEPT ![r] = @ \o c.post]
               /\ UNCHANGED rk_ops
          ELSE /\ rko' = [rko EXCEPT ![r] =
                            [k0 EXCEPT !.broker_id = pre.broker_id]]
               /\ eonce' = [eonce EXCEPT ![r] = rd_kafka_enq_once_new]
               /\ rk_ops' = Append(rk_ops, [type |-> "op", r |-> r])
               /\ UNCHANGED replyq
       /\ UNCHANGED <<now, terminating, up, waiters, wire, long_bits, pf, pr, ao, ra>>

rd_kafka_AlterConfigs(r) ==
    \E inp \in AlterConfigsInputs :
        SubmitConfigs(r, OP_ALTERCONFIGS, inp.args, inp.options)

rd_kafka_DescribeConfigs(r) ==
    \E inp \in DescribeConfigsInputs :
        SubmitConfigs(r, OP_DESCRIBECONFIGS, inp.args, inp.options)

\* the effects of one worker invocation on request r; a HANDLED return makes
\* the caller destroy the op
ApplyWorker(r, out) ==
    /\ rko' = [rko EXCEPT ![r] =
                 IF out.res = OP_RES_HANDLED
                 THEN [out.k EXCEPT !.mem = "freed"] ELSE out.k]
    /\ eonce' = [eonce EXCEPT ![r] = out.e]
    /\ replyq' = [replyq EXCEPT ![r] = @ \o out.post]
    /\ waiters' = IF out.wait THEN Append(waiters, r) ELSE waiters
    /\ wire' = IF out.send THEN [wire EXCEPT ![r] = "sent"] ELSE wire
    /\ UNCHANGED <<pf, pr, ao, ra>>

Env(berr) ==
    [terminating |-> terminating, now |-> now, up |-> up, berr |-> berr,
     abort |-> FALSE]

\* the main thread dequeues a request op from rk_ops and calls its op callback
ServeOp ==
    /\ rk_ops # <<>>
    /\ Head(rk_ops).type = "op"
    /\ LET r == Head(rk_ops).r
       IN \E berr \in RequestErrs :
             \E out \in {rd_kafka_admin_worker(Ctx(rko[r], eonce[r]),
                                                Env(berr))} :
                ApplyWorker(r, out)
    /\ rk_ops' = Tail(rk_ops)
    /\ UNCHANGED <<now, terminating, up, long_bits>>

\* rd_kafka_admin_handle_response without its return on an empty payload
rd_kafka_admin_handle_response_no_check ==
    /\ rk_ops # <<>>
    /\ Head(rk_ops).type = "resp"
    /\ LET resp == Head(rk_ops)
           r    == resp.r
           e1   == rd_kafka_enq_once_disable(eonce[r])
           k1   == [rko[r] EXCEPT !.reply_buf = resp.reply,
                                  !.rko_err = resp.err]
       IN \E berr \in RequestErrs :
             \E out \in {rd_kafka_admin_worker(Ctx(k1, e1), Env(berr))} :
                ApplyWorker(r, out)
    /\ rk_ops' = Tail(rk_ops)
    /\ UNCHANGED <<now, terminating, up, long_bits>>

\* the main thread dequeues a response from rk_ops and calls the buffer
\* callback
rd_kafka_admin_handle_response ==
    /\ rk_ops # <<>>
    /\ Head(rk_ops).type = "resp"
    /\ LET resp == Head(rk_ops)
           r    == resp.r
           got  == eonce[r].rko
           e1   == rd_kafka_enq_once_disable(eonce[r])
           k1   == [rko[r] EXCEPT !.reply_buf = resp.reply,
                                  !.rko_err = resp.err]
       IN IF ~got
          THEN \* dropping outdated response
               /\ eonce' = [eonce EXCEPT ![r] = e1]
               /\ UNCHANGED <<rko, replyq, waiters, wire, pf, pr, ao, ra>>
          ELSE \E berr \in RequestErrs :
                  \E abort \in IF resp.reply = NULL THEN {FALSE}
                                ELSE DoubleFreeOutcomes(
                                         cbs_parse(k1, resp.reply)) :
                     \E out \in {rd_kafka_admin_worker(
                                      Ctx(k1, e1),
                                      [Env(berr) EXCEPT !.abort = abort])} :
                        ApplyWorker(r, out)
    /\ rk_ops' = Tail(rk_ops)
    /\ UNCHANGED <<now, terminating, up, long_bits>>

\* the timer callback enqueueing the rko itself, not through the eonce
rd_kafka_admin_eonce_timeout_cb_direct(r) ==
    /\ rko[r].tmr = "armed"
    /\ now >= rko[r].tmr_next
    /\ eonce' = [eonce EXCEPT ![r] = [@ EXCEPT !.refcnt = @ - 1, !.rko = FALSE]]
    /\ rko' = [rko EXCEPT ![r] = [@ EXCEPT !.tmr = "fired",
                                           !.rko_err = ERR__TIMED_OUT]]
    /\ rk_ops' = Append(rk_ops, [type |-> "op", r |-> r])
    /\ UNCHANGED <<replyq, now, terminating, up, waiters, wire, long_bits, pf, pr, ao, ra>>

\* the timer callback leaving the rko in the payload slot of the eonce it
\* triggered
rd_kafka_admin_eonce_timeout_cb_keeps_payload(r) ==
    /\ rko[r].tmr = "armed"
    /\ now >= rko[r].tmr_next
    /\ LET t == rd_kafka_enq_once_trigger(
                    eonce[r], [rko[r] EXCEPT !.tmr = "fired"], ERR__TIMED_OUT)
       IN /\ eonce' = [eonce EXCEPT ![r] = [t.e EXCEPT !.rko = eonce[r].rko]]
          /\ rko' = [rko EXCEPT ![r] = t.k]
          /\ rk_ops' = IF t.enq THEN Append(rk_ops, [type |-> "op", r |-> r])
                       ELSE rk_ops
    /\ UNCHANGED <<replyq, now, terminating, up, waiters, wire, long_bits, pf, pr, ao, ra>>

\* the timer callback raising the timeout on every request that is allocated
rd_kafka_admin_eonce_timeout_cb_on_all(r) ==
    /\ rko[r].tmr = "armed"
    /\ now >= rko[r].tmr_next
    /\ LET t == rd_kafka_enq_once_trigger(
                    eonce[r], [rko[r] EXCEPT !.tmr = "fired"], ERR__TIMED_OUT)
       IN /\ eonce' = [eonce EXCEPT ![r] = t.e]
          /\ rko' = [s \in Reqs |->
                        IF s = r THEN t.k
                        ELSE IF rko[s].mem = "alloc"
                        THEN [rko[s] EXCEPT !.rko_err = ERR__TIMED_OUT]
                        ELSE rko[s]]
          /\ rk_ops' = IF t.enq THEN Append(rk_ops, [type |-> "op", r |-> r])
                       ELSE rk_ops
    /\ UNCHANGED <<replyq, now, terminating, up, waiters, wire, long_bits, pf, pr, ao, ra>>

\* the timer service runs the one-shot timer of request r
rd_kafka_admin_eonce_timeout_cb(r) ==
    /\ rko[r].tmr = "armed"
    /\ now >= rko[r].tmr_next
    /\ LET t == rd_kafka_enq_once_trigger(
                    eonce[r], [rko[r] EXCEPT !.tmr = "fired"], ERR__TIMED_OUT)
       IN /\ eonce' = [eonce EXCEPT ![r] = t.e]
          /\ rko' = [rko EXCEPT ![r] = t.k]
          /\ rk_ops' = IF t.enq THEN Append(rk_ops, [type |-> "op", r |-> r])
                       ELSE rk_ops
    /\ UNCHANGED <<replyq, now, terminating, up, waiters, wire, long_bits, pf, pr, ao, ra>>

RECURSIVE TriggerAll(_, _, _, _)
\* every waiter of the list triggered in turn: [rko, eonce, rk_ops]
TriggerAll(ws, ks, es, q) ==
    IF ws = <<>> THEN [rko |-> ks, eonce |-> es, rk_ops |-> q]
    ELSE LET r == Head(ws)
             t == rd_kafka_enq_once_trigger(es[r], ks[r], NO_ERROR)
         IN TriggerAll(Tail(ws),
                       [ks EXCEPT ![r] = t.k],
                       [es EXCEPT ![r] = t.e],
                       IF t.enq THEN Append(q, [type |-> "op", r |-> r])
                       ELSE q)

\* a broker state change that triggers every registered eonce and leaves
\* the list of waiters as it was
BrokerStateChange_keeps_waiters(b) ==
    /\ up' = [up EXCEPT ![b] = ~@]
    /\ LET t == TriggerAll(waiters, rko, eonce, rk_ops)
       IN /\ rko' = t.rko
          /\ eonce' = t.eonce
          /\ rk_ops' = t.rk_ops
    /\ waiters' = waiters
    /\ UNCHANGED <<replyq, now, terminating, wire, long_bits, pf, pr, ao, ra>>

\* a broker (or the controller, -1) changes state: every registered eonce is
\* triggered and the list of waiters is cleared
BrokerStateChange(b) ==
    /\ up' = [up EXCEPT ![b] = ~@]
    /\ LET t == TriggerAll(waiters, rko, eonce, rk_ops)
       IN /\ rko' = t.rko
          /\ eonce' = t.eonce
          /\ rk_ops' = t.rk_ops
    /\ waiters' = <<>>
    /\ UNCHANGED <<replyq, now, terminating, wire, long_bits, pf, pr, ao, ra>>

\* the broker thread delivers the outcome of request r's protocol request:
\* a reply buffer, an error with no reply, or a transport error found while
\* a reply buffer was read
DeliverResponse(r, errs) ==
    /\ wire[r] = "sent"
    /\ \E resp \in {[err |-> NO_ERROR, reply |-> b] : b \in EngineReplies(rko[r])}
                   \cup {[err |-> x, reply |-> NULL] : x \in errs}
                   \cup {[err |-> ERR__TRANSPORT, reply |-> b] :
                            b \in {CHOOSE e \in EngineReplies(rko[r]) :
                                      e.cnt = Len(e.elems)}} :
          rk_ops' = Append(rk_ops, [type |-> "resp", r |-> r,
                                    err |-> resp.err, reply |-> resp.reply])
    /\ wire' = [wire EXCEPT ![r] = "replied"]
    /\ UNCHANGED <<rko, eonce, replyq, now, terminating, up, waiters, long_bits, pf, pr, ao, ra>>

BrokerResponse(r) == DeliverResponse(r, ResponseErrs)

\* a response while no queue is being destroyed
BrokerResponseLive(r) == DeliverResponse(r, ResponseErrs \ {ERR__DESTROY})

Tick ==
    /\ now < MaxTime
    /\ now' = now + 1
    /\ UNCHANGED <<rko, eonce, rk_ops, replyq, terminating, up, waiters, wire,
                   long_bits, pf, pr, ao, ra>>

\* the application destroys the client instance
Terminate ==
    /\ ~terminating
    /\ terminating' = TRUE
    /\ UNCHANGED <<rko, eonce, rk_ops, replyq, now, up, waiters, wire,
                   long_bits, pf, pr, ao, ra>>

NoPf == [args |-> <<>>, out |-> NULL]

NoPr == [req |-> NoRko, reply |-> NULL, out |-> NULL, aborted |-> FALSE]

\* no NewTopic or NewPartitions object yet
NoRa ==
    [obj |-> NULL, call |-> <<>>, ret |-> NO_ERROR, before |-> NULL,
     aborted |-> FALSE, ncalls |-> 0, given |-> <<>>]

\* no AdminOptions object yet
NoAo == [options |-> NULL, call |-> <<>>, ret |-> NO_ERROR, before |-> NULL]

\* the engine before any submission, every broker down
EngineIdle ==
    /\ rko = [r \in Reqs |-> NoRko]
    /\ eonce = [r \in Reqs |-> [refcnt |-> 0, rko |-> FALSE]]
    /\ rk_ops = <<>>
    /\ replyq = [r \in Reqs |-> <<>>]
    /\ now = 0
    /\ terminating = FALSE
    /\ waiters = <<>>
    /\ wire = [r \in Reqs |-> "none"]

Init ==
    /\ ao = NoAo
    /\ ra = NoRa
    /\ EngineIdle
    /\ up \in [Targets -> BOOLEAN]
    /\ long_bits = 64
    /\ pf = NoPf
    /\ pr = NoPr

Next ==
    \/ \E r \in Reqs : rd_kafka_CreateTopics(r)
    \/ \E r \in Reqs : rd_kafka_DeleteTopics(r)
    \/ \E r \in Reqs : rd_kafka_CreatePartitions(r)
    \/ \E r \in Reqs : rd_kafka_AlterConfigs(r)
    \/ \E r \in Reqs : rd_kafka_DescribeConfigs(r)
    \/ ServeOp
    \/ rd_kafka_admin_handle_response
    \/ \E r \in Reqs : rd_kafka_admin_eonce_timeout_cb(r)
    \/ \E b \in Targets : BrokerStateChange(b)
    \/ \E r \in Reqs : BrokerResponse(r)
    \/ Tick
    \/ Terminate

Spec == Init /\ [][Next]_vars

(***************************************************************************)
(* The engine while the instance lives: it is never terminated and no      *)
(* queue is destroyed; the main thread serves rk_ops, the timer service    *)
(* runs the timers that are due, and the clock advances.                   *)
(***************************************************************************)
NextLive ==
    \/ \E r \in Reqs : rd_kafka_CreateTopics(r)
    \/ \E r \in Reqs : rd_kafka_DeleteTopics(r)
    \/ \E r \in Reqs : rd_kafka_CreatePartitions(r)
    \/ \E r \in Reqs : rd_kafka_AlterConfigs(r)
    \/ \E r \in Reqs : rd_kafka_DescribeConfigs(r)
    \/ ServeOp
    \/ rd_kafka_admin_handle_response
    \/ \E r \in Reqs : rd_kafka_admin_eonce_timeout_cb(r)
    \/ \E b \in Targets : BrokerStateChange(b)
    \/ \E r \in Reqs : BrokerResponseLive(r)
    \/ Tick

\* the main thread has an entry of rk_ops to serve
ServeOpEnabled == rk_ops # <<>> /\ Head(rk_ops).type = "op"

HandleResponseEnabled == rk_ops # <<>> /\ Head(rk_ops).type = "resp"

\* the two state predicates above are ENABLED of the two actions
MainThreadEnabled ==
    /\ ServeOpEnabled <=> ENABLED <<ServeOp>>_vars
    /\ HandleResponseEnabled <=> ENABLED <<rd_kafka_admin_handle_response>>_vars

\* weak fairness of the main thread's two actions, with ENABLED written as
\* the state predicates above, of the timer service and of the clock
Fairness ==
    /\ []<>(~ServeOpEnabled) \/ []<><<ServeOp>>_vars
    /\ []<>(~HandleResponseEnabled)
          \/ []<><<rd_kafka_admin_handle_response>>_vars
    /\ \A r \in Reqs : WF_vars(rd_kafka_admin_eonce_timeout_cb(r))
    /\ WF_vars(Tick)

SpecLive == Init /\ [][NextLive]_vars /\ Fairness

(***************************************************************************)
(* The pre-flight on its own, over every args list of up to MaxArgs        *)
(* resources and both widths of long.                                      *)
(***************************************************************************)
\* names of Broker resources, as their chars
PfNames ==
    {<<"0">>, <<"1">>, <<"7">>, <<"-", "1">>, <<"x">>, <<"1", "x">>,
     <<" ", "+", "7">>,
     <<"2", "1", "4", "7", "4", "8", "3", "6", "4", "7">>,
     <<"2", "1", "4", "7", "4", "8", "3", "6", "4", "8">>,
     <<"4", "2", "9", "4", "9", "6", "7", "2", "9", "5">>,
     <<"4", "2", "9", "4", "9", "6", "7", "2", "9", "6">>,
     <<"4", "2", "9", "4", "9", "6", "7", "3", "0", "3">>,
     <<"-", "4", "2", "9", "4", "9", "6", "7", "2", "9", "5">>,
     <<"9", "2", "2", "3", "3", "7", "2", "0", "3", "6", "8", "5", "4", "7",
       "7", "5", "8", "0", "8">>,
     <<"-", "9", "2", "2", "3", "3", "7", "2", "0", "3", "6", "8", "5", "4",
       "7", "7", "5", "8", "0", "9">>}

PfResources ==
    {ConfigResource(RESOURCE_TOPIC, <<"a">>)}
    \cup {ConfigResource(RESOURCE_BROKER, n) : n \in PfNames}

SeqsUpTo(S, n) == UNION {[1..m -> S] : m \in 0..n}

InitPreflight ==
    /\ ao = NoAo
    /\ ra = NoRa
    /\ EngineIdle
    /\ up = [b \in Targets |-> FALSE]
    /\ long_bits \in {32, 64}
    /\ pf \in {[args |-> a, out |-> NULL] : a \in SeqsUpTo(PfResources, MaxArgs)}
    /\ pr = NoPr

RunPreflight ==
    /\ pf.out = NULL
    /\ pf' = [pf EXCEPT !.out =
                rd_kafka_ConfigResource_get_single_broker_id(pf.args,
                                                             long_bits)]
    /\ UNCHANGED <<rko, eonce, rk_ops, replyq, now, terminating, up, waiters,
                   wire, long_bits, pr, ao, ra>>

NextPreflight == RunPreflight

SpecPreflight == InitPreflight /\ [][NextPreflight]_vars

(***************************************************************************)
(* The response parsers on their own, over requests of up to MaxArgs args  *)
(* and replies of up to MaxArgs elements that declare their own count or   *)
(* one more.                                                               *)
(***************************************************************************)
ParseTopicNames == {"a", "b", "c"}

ParseTopicErrs == {NO_ERROR, ERR_REQUEST_TIMED_OUT, ERR_TOPIC_ALREADY_EXISTS}

ParseConfigKeys ==
    {ConfigResource(RESOURCE_TOPIC, <<"a">>),
     ConfigResource(RESOURCE_TOPIC, <<"b">>),
     ConfigResource(RESOURCE_BROKER, <<"1">>)}

\* the least operation_timeout the options accept, zero, and a positive one
ParseOperationTimeouts == {-1, 0, 1}

ParseRequests ==
    {[NoRko EXCEPT !.mem = "alloc", !.rko_type = optype,
                   !.reply_event_type = EventType(optype),
                   !.options = [NoOptions EXCEPT !.operation_timeout = ot],
                   !.args = [j \in 1..Len(names) |-> [topic |-> names[j]]]] :
        optype \in TopicOps, ot \in ParseOperationTimeouts,
        names \in SeqsUpTo(ParseTopicNames, MaxArgs)}
    \cup
    {[NoRko EXCEPT !.mem = "alloc", !.rko_type = optype,
                   !.reply_event_type = EventType(optype),
                   !.args = args] :
        optype \in ConfigOps, args \in SeqsUpTo(ParseConfigKeys, MaxArgs)}

ParseElems(optype) ==
    IF optype \in TopicOps
    THEN {[topic |-> t, error_code |-> x, error_msg |-> NULLSTR] :
             t \in ParseTopicNames, x \in ParseTopicErrs}
    ELSE {[error_code |-> NO_ERROR, error_msg |-> NULLSTR,
           res_type |-> k.restype, res_name |-> k.name, entries |-> <<>>] :
             k \in ParseConfigKeys}
         \cup {[error_code |-> NO_ERROR, error_msg |-> NULLSTR,
                res_type |-> -1, res_name |-> <<"a">>, entries |-> <<>>]}

ParseReplies(optype) ==
    {[ApiVersion |-> 1, cnt |-> Len(elems) + more, elems |-> elems] :
        elems \in SeqsUpTo(ParseElems(optype), MaxArgs), more \in {0, 1}}

\* the config entries of a DescribeConfigs response as they are on the wire:
\* those of ApiVersion 0 carry is_default, those of ApiVersion 1 carry the
\* source and the synonyms, whose declared count may exceed the limit
MaxEntries == 2

ParseSources ==
    {CONFIG_SOURCE_UNKNOWN_CONFIG, CONFIG_SOURCE_STATIC_BROKER_CONFIG,
     CONFIG_SOURCE_DEFAULT_CONFIG}

ParseSynonyms ==
    {[name |-> "k", value |-> "v", source |-> src] :
        src \in {CONFIG_SOURCE_STATIC_BROKER_CONFIG,
                 CONFIG_SOURCE_DEFAULT_CONFIG}}
    \cup {[name |-> NULLSTR, value |-> "v",
           source |-> CONFIG_SOURCE_DEFAULT_CONFIG]}

ParseRawEntries(ApiVersion) ==
    IF ApiVersion = 0
    THEN {[name |-> "k", value |-> "v", is_readonly |-> FALSE,
           is_sensitive |-> FALSE, is_default |-> d] : d \in BOOLEAN}
    ELSE {[name |-> "k", value |-> "v", is_readonly |-> FALSE,
           is_sensitive |-> FALSE, source |-> src, syn_cnt |-> Len(syns),
           synonyms |-> syns] :
             src \in ParseSources, syns \in SeqsUpTo(ParseSynonyms, 1)}
         \cup {[name |-> "k", value |-> "v", is_readonly |-> FALSE,
                is_sensitive |-> FALSE, source |-> src,
                syn_cnt |-> MaxSynonyms + 1, synonyms |-> <<>>] :
                  src \in ParseSources}

\* the responses to a DescribeConfigs request of one resource that return
\* that resource with up to MaxEntries config entries
ParseEntryReplies(req) ==
    IF req.rko_type = OP_DESCRIBECONFIGS /\ Len(req.args) = 1
    THEN UNION {
           {[ApiVersion |-> v, cnt |-> 1,
             elems |-> <<[error_code |-> NO_ERROR, error_msg |-> NULLSTR,
                          res_type |-> req.args[1].restype,
                          res_name |-> req.args[1].name,
                          entries |-> entries]>>] :
               entries \in SeqsUpTo(ParseRawEntries(v), MaxEntries)} :
           v \in {0, 1}}
    ELSE {}

InitParse ==
    /\ ao = NoAo
    /\ ra = NoRa
    /\ EngineIdle
    /\ up = [b \in Targets |-> FALSE]
    /\ long_bits = 64
    /\ pf = NoPf
    /\ \E req \in ParseRequests :
          pr \in {[req |-> req, reply |-> reply, out |-> NULL,
                    aborted |-> FALSE] :
                     reply \in ParseReplies(req.rko_type)
                                  \cup ParseEntryReplies(req)}

RunParse ==
    /\ pr.out = NULL
    /\ \E out \in {cbs_parse(pr.req, pr.reply)} :
          \E aborted \in DoubleFreeOutcomes(out) :
              pr' = [pr EXCEPT !.out = out, !.aborted = aborted]
    /\ UNCHANGED <<rko, eonce, rk_ops, replyq, now, terminating, up, waiters,
                   wire, long_bits, pf, ao, ra>>

NextParse == RunParse

SpecParse == InitParse /\ [][NextParse]_vars

(***************************************************************************)
(* AdminOptions.  Each option is a confval: [name, valuetype, is_enabled,  *)
(* is_set, vmin, vmax, v].  An options object is [for_api, and the six     *)
(* confvals].                                                              *)
(***************************************************************************)
rd_kafka_confval_init_int(name, vmin, vmax, vdef) ==
    [name |-> name, valuetype |-> "INT", is_enabled |-> TRUE,
     is_set |-> FALSE, vmin |-> vmin, vmax |-> vmax, v |-> vdef]

rd_kafka_confval_init_ptr(name) ==
    [name |-> name, valuetype |-> "PTR", is_enabled |-> TRUE,
     is_set |-> FALSE, vmin |-> 0, vmax |-> 0, v |-> NULLSTR]

rd_kafka_confval_disable(name) ==
    [name |-> name, valuetype |-> "INT", is_enabled |-> FALSE,
     is_set |-> FALSE, vmin |-> 0, vmax |-> 0, v |-> 0]

\* [err, confval]: a disabled confval, or an int outside the range, is
\* refused with ERR__INVALID_ARG and the confval is left as it was
rd_kafka_confval_set_type(confval, value) ==
    IF ~confval.is_enabled
    THEN [err |-> ERR__INVALID_ARG, confval |-> confval]
    ELSE IF confval.valuetype = "INT"
            /\ (value < confval.vmin \/ value > confval.vmax)
    THEN [err |-> ERR__INVALID_ARG, confval |-> confval]
    ELSE [err |-> NO_ERROR, confval |-> [confval EXCEPT !.v = value,
                                                        !.is_set = TRUE]]

\* the names of the APIs in lower case, for rd_strcasecmp
ToLower(str) ==
    CASE str \in {"CreateTopics", "createtopics"}         -> "createtopics"
      [] str \in {"DeleteTopics", "DELETETOPICS"}         -> "deletetopics"
      [] str \in {"CreatePartitions"}                     -> "createpartitions"
      [] str \in {"AlterConfigs", "alterconfigs"}         -> "alterconfigs"
      [] str \in {"DescribeConfigs"}                      -> "describeconfigs"
      [] OTHER                                            -> str

\* 0 when the strings are equal but for the case of their letters
rd_strcasecmp(s1, s2) == IF ToLower(s1) = ToLower(s2) THEN 0 ELSE 1

\* rk->rk_conf.admin.request_timeout_ms
admin_request_timeout_ms == 1

\* is for_api NULL or, the case of letters apart, one of the names
ForApiIn(for_api, names) ==
    for_api = NULLSTR \/ \E n \in names : rd_strcasecmp(for_api, n) = 0

\* every option enabled whatever the API
rd_kafka_AdminOptions_init_all_enabled(for_api) ==
    [for_api |-> for_api,
     request_timeout |->
        rd_kafka_confval_init_int("request_timeout", 0, 3600 * 1000,
                                  admin_request_timeout_ms),
     operation_timeout |->
        rd_kafka_confval_init_int("operation_timeout", -1,
                                  3600 * 1000, 0),
     validate_only |-> rd_kafka_confval_init_int("validate_only", 0, 1, 0),
     incremental |-> rd_kafka_confval_init_int("incremental", 0, 1, 0),
     broker |-> rd_kafka_confval_init_int("broker", 0, INT32_MAX, -1),
     opaque |-> rd_kafka_confval_init_ptr("opaque")]

rd_kafka_AdminOptions_init(for_api) ==
    [for_api |-> for_api,
     request_timeout |->
        rd_kafka_confval_init_int("request_timeout", 0, 3600 * 1000,
                                  admin_request_timeout_ms),
     operation_timeout |->
        IF ForApiIn(for_api,
                    {"CreateTopics", "DeleteTopics", "CreatePartitions"})
        THEN rd_kafka_confval_init_int("operation_timeout", -1,
                                       3600 * 1000, 0)
        ELSE rd_kafka_confval_disable("operation_timeout"),
     validate_only |->
        IF ForApiIn(for_api,
                    {"CreateTopics", "CreatePartitions", "AlterConfigs"})
        THEN rd_kafka_confval_init_int("validate_only", 0, 1, 0)
        ELSE rd_kafka_confval_disable("validate_only"),
     incremental |->
        IF ForApiIn(for_api, {"AlterConfigs"})
        THEN rd_kafka_confval_init_int("incremental", 0, 1, 0)
        ELSE rd_kafka_confval_disable("incremental"),
     broker |-> rd_kafka_confval_init_int("broker", 0, INT32_MAX, -1),
     opaque |-> rd_kafka_confval_init_ptr("opaque")]

valid_apis ==
    <<"CreateTopics", "DeleteTopics", "CreatePartitions", "AlterConfigs",
      "DescribeConfigs">>

\* NULL when for_api is given and is not the name of an API
rd_kafka_AdminOptions_new0(for_api) ==
    IF for_api # NULLSTR
       /\ \A v \in 1..Len(valid_apis) : rd_strcasecmp(valid_apis[v], for_api) # 0
    THEN NULL
    ELSE rd_kafka_AdminOptions_init(for_api)

\* the names of the options, that is of the setters
OptionNames ==
    {"request_timeout", "operation_timeout", "validate_only", "incremental",
     "broker", "opaque"}

\* rd_kafka_AdminOptions_set_<name>: [err, options]
rd_kafka_AdminOptions_set(options, name, value) ==
    LET set == rd_kafka_confval_set_type(options[name], value)
    IN [err |-> set.err, options |-> [options EXCEPT ![name] = set.confval]]

\* the for_api strings an application passes, NULLSTR for none
ForApis ==
    {NULLSTR, "CreateTopics", "DeleteTopics", "CreatePartitions",
     "AlterConfigs", "DescribeConfigs", "createtopics", "DELETETOPICS",
     "alterconfigs", "ListTopics"}

\* the values an application passes to each setter
OptionInputs(name) ==
    CASE name = "request_timeout"   -> {-1, 0, 5}
      [] name = "operation_timeout" -> {-2, -1, 5}
      [] name = "validate_only"     -> {1, 2}
      [] name = "incremental"       -> {1}
      [] name = "broker"            -> {-1, 7}
      [] name = "opaque"            -> {"opq"}

rd_kafka_AdminOptions_new ==
    /\ ao = NoAo
    /\ ra = NoRa
    /\ \E for_api \in ForApis :
          ao' = [ao EXCEPT !.options = rd_kafka_AdminOptions_new0(for_api),
                           !.call = <<"new", for_api>>]
    /\ UNCHANGED <<rko, eonce, rk_ops, replyq, now, terminating, up, waiters,
                   wire, long_bits, pf, pr, ra>>

\* a call of one of the six setters on the options object
rd_kafka_AdminOptions_set_option ==
    /\ ao.options # NULL
    /\ \E name \in OptionNames : \E value \in OptionInputs(name) :
          \E set \in {rd_kafka_AdminOptions_set(ao.options, name, value)} :
              ao' = [options |-> set.options, call |-> <<name, value>>,
                     ret |-> set.err, before |-> ao.options]
    /\ UNCHANGED <<rko, eonce, rk_ops, replyq, now, terminating, up, waiters,
                   wire, long_bits, pf, pr, ra>>

InitOptions ==
    /\ EngineIdle
    /\ up = [b \in Targets |-> FALSE]
    /\ long_bits = 64
    /\ pf = NoPf
    /\ pr = NoPr
    /\ ao = NoAo
    /\ ra = NoRa

NextOptions ==
    \/ rd_kafka_AdminOptions_new
    \/ rd_kafka_AdminOptions_set_option

SpecOptions == InitOptions /\ [][NextOptions]_vars

(***************************************************************************)
(* NewTopic and NewPartitions objects and their replica assignments.       *)
(* replicas is the list of int32 lists, replicas_size the number of        *)
(* elements rd_list_prealloc_elems reserved for it.                        *)
(***************************************************************************)
RD_KAFKAP_PARTITIONS_MAX == 100000

RD_KAFKAP_BROKERS_MAX == 10000

\* rd_list_add on a list whose elements were preallocated: [rl, abort].  A
\* full list has to grow, which a preallocated list refuses by an assertion;
\* grow tells whether the build lets it grow all the same
rd_list_add(rl, size, elem, grow) ==
    IF rd_list_cnt(rl) = size /\ ~grow
    THEN [rl |-> rl, abort |-> TRUE]
    ELSE [rl |-> Append(rl, elem), abort |-> FALSE]

rd_kafka_NewTopic_new(topic, num_partitions, replication_factor) ==
    IF topic = NULLSTR THEN NULL
    ELSE IF num_partitions < 1 \/ num_partitions > RD_KAFKAP_PARTITIONS_MAX
    THEN NULL
    ELSE IF replication_factor < -1
            \/ replication_factor > RD_KAFKAP_BROKERS_MAX
    THEN NULL
    ELSE [type |-> "NewTopic", topic |-> topic,
          num_partitions |-> num_partitions,
          replication_factor |-> replication_factor,
          replicas |-> <<>>, replicas_size |-> num_partitions]

rd_kafka_NewPartitions_new(topic, new_total_cnt) ==
    IF new_total_cnt < 1 \/ new_total_cnt > RD_KAFKAP_PARTITIONS_MAX
    THEN NULL
    ELSE [type |-> "NewPartitions", topic |-> topic,
          total_cnt |-> new_total_cnt,
          replicas |-> <<>>, replicas_size |-> new_total_cnt]

\* the int32 list rl the setters build from broker_ids: [obj, err, abort]
ReplicasAdd(obj, broker_ids, broker_id_cnt, grow) ==
    LET rl  == [i \in 1..broker_id_cnt |-> broker_ids[i]]
        add == rd_list_add(obj.replicas, obj.replicas_size, rl, grow)
    IN [obj |-> [obj EXCEPT !.replicas = add.rl],
        err |-> NO_ERROR, abort |-> add.abort]

\* the setter without its check of the partition's place
rd_kafka_NewTopic_set_replica_assignment_any_order(new_topic, partition, broker_ids, broker_id_cnt, grow) ==
    IF new_topic.replication_factor # -1
    THEN [obj |-> new_topic, err |-> ERR__INVALID_ARG, abort |-> FALSE]
    ELSE IF broker_id_cnt > RD_KAFKAP_BROKERS_MAX
    THEN [obj |-> new_topic, err |-> ERR__INVALID_ARG, abort |-> FALSE]
    ELSE ReplicasAdd(new_topic, broker_ids, broker_id_cnt, grow)

rd_kafka_NewTopic_set_replica_assignment(new_topic, partition, broker_ids, broker_id_cnt, grow) ==
    IF new_topic.replication_factor # -1
    THEN [obj |-> new_topic, err |-> ERR__INVALID_ARG, abort |-> FALSE]
    ELSE IF partition # rd_list_cnt(new_topic.replicas)
    THEN [obj |-> new_topic, err |-> ERR__INVALID_ARG, abort |-> FALSE]
    ELSE IF broker_id_cnt > RD_KAFKAP_BROKERS_MAX
    THEN [obj |-> new_topic, err |-> ERR__INVALID_ARG, abort |-> FALSE]
    ELSE ReplicasAdd(new_topic, broker_ids, broker_id_cnt, grow)

rd_kafka_NewPartitions_set_replica_assignment(newp, new_partition_idx, broker_ids, broker_id_cnt, grow) ==
    IF new_partition_idx # rd_list_cnt(newp.replicas)
    THEN [obj |-> newp, err |-> ERR__INVALID_ARG, abort |-> FALSE]
    ELSE IF broker_id_cnt > RD_KAFKAP_BROKERS_MAX
    THEN [obj |-> newp, err |-> ERR__INVALID_ARG, abort |-> FALSE]
    ELSE ReplicasAdd(newp, broker_ids, broker_id_cnt, grow)

\* the calls made on one object
MaxCalls == 3

\* num_partitions and new_total_cnt
ReplicaCounts == {0, 1, 2, RD_KAFKAP_PARTITIONS_MAX + 1}

ReplicationFactors == {-2, -1, 1}

\* the arguments of a setter call: [partition, broker_ids, broker_id_cnt]
ReplicaCalls ==
    {[partition |-> p, broker_ids |-> ids, broker_id_cnt |-> c] :
        p \in -1..MaxCalls, ids \in {<<1>>, <<2, 1>>},
        c \in {1, 2, RD_KAFKAP_BROKERS_MAX + 1}}
    \ {[partition |-> p, broker_ids |-> <<1>>, broker_id_cnt |-> 2] :
          p \in -1..MaxCalls}

\* the application creates a NewTopic
NewTopic_new ==
    /\ ra = NoRa
    /\ \E topic \in {NULLSTR, "t"}, n \in ReplicaCounts,
          rf \in ReplicationFactors :
          ra' = [NoRa EXCEPT !.obj = rd_kafka_NewTopic_new(topic, n, rf),
                             !.call = <<"NewTopic_new", topic, n, rf>>]
    /\ UNCHANGED <<rko, eonce, rk_ops, replyq, now, terminating, up, waiters,
                   wire, long_bits, pf, pr, ao>>

\* the application creates a NewPartitions
NewPartitions_new ==
    /\ ra = NoRa
    /\ \E n \in ReplicaCounts :
          ra' = [NoRa EXCEPT !.obj = rd_kafka_NewPartitions_new("t", n),
                             !.call = <<"NewPartitions_new", "t", n>>]
    /\ UNCHANGED <<rko, eonce, rk_ops, replyq, now, terminating, up, waiters,
                   wire, long_bits, pf, pr, ao>>

\* the outcome of a setter call recorded in ra; given lists the calls that
\* returned NO_ERROR
SetReplicaAssignment(call, out) ==
    ra' = [obj |-> out.obj, call |-> call, ret |-> out.err,
           before |-> ra.obj, aborted |-> out.abort,
           ncalls |-> ra.ncalls + 1,
           given |-> IF out.err = NO_ERROR /\ ~out.abort
                     THEN Append(ra.given, call) ELSE ra.given]

\* a call of rd_kafka_NewTopic_set_replica_assignment
NewTopic_set_replica_assignment ==
    /\ ra.obj # NULL
    /\ ra.obj.type = "NewTopic"
    /\ ~ra.aborted
    /\ ra.ncalls < MaxCalls
    /\ \E call \in ReplicaCalls, grow \in BOOLEAN :
          SetReplicaAssignment(
              call,
              rd_kafka_NewTopic_set_replica_assignment(
                  ra.obj, call.partition, call.broker_ids,
                  call.broker_id_cnt, grow))
    /\ UNCHANGED <<rko, eonce, rk_ops, replyq, now, terminating, up, waiters,
                   wire, long_bits, pf, pr, ao>>

\* a call of rd_kafka_NewPartitions_set_replica_assignment
NewPartitions_set_replica_assignment ==
    /\ ra.obj # NULL
    /\ ra.obj.type = "NewPartitions"
    /\ ~ra.aborted
    /\ ra.ncalls < MaxCalls
    /\ \E call \in ReplicaCalls, grow \in BOOLEAN :
          SetReplicaAssignment(
              call,
              rd_kafka_NewPartitions_set_replica_assignment(
                  ra.obj, call.partition, call.broker_ids,
                  call.broker_id_cnt, grow))
    /\ UNCHANGED <<rko, eonce, rk_ops, replyq, now, terminating, up, waiters,
                   wire, long_bits, pf, pr, ao>>

InitReplicas ==
    /\ EngineIdle
    /\ up = [b \in Targets |-> FALSE]
    /\ long_bits = 64
    /\ pf = NoPf
    /\ pr = NoPr
    /\ ao = NoAo
    /\ ra = NoRa

NextReplicas ==
    \/ NewTopic_new
    \/ NewPartitions_new
    \/ NewTopic_set_replica_assignment
    \/ NewPartitions_set_replica_assignment

SpecReplicas == InitReplicas /\ [][NextReplicas]_vars

(***************************************************************************)
(* Properties of the engine.                                               *)
(***************************************************************************)
\* this step takes an entry of request r off rk_ops
Dequeues(r) ==
    /\ rk_ops # <<>>
    /\ Head(rk_ops).r = r
    /\ Len(rk_ops') < Len(rk_ops)

\* this step calls the worker on request r: from rk_ops, or from the response
\* callback that found the payload
WorkerInvoked(r) ==
    /\ Dequeues(r)
    /\ Head(rk_ops).type = "op" \/ eonce[r].rko

\* rko_err as the worker of this step finds it
EntryErr(r) ==
    IF Head(rk_ops).type = "resp" THEN Head(rk_ops).err ELSE rko[r].rko_err

\* the exits of the worker that are a silent cleanup
SilentExits == {"terminating", "destroy"}

\* the request was accepted by its constructor and its worker has not
\* dismantled it
Outstanding(r) == rko[r].mem = "alloc" /\ rko[r].eonce

\* the request went through rd_kafka_admin_common_worker_destroy
Dismantled(r) == rko[r].mem # "none" /\ ~rko[r].eonce

\* a request-level failure result and nothing else
OnlyFailure(r, err) ==
    /\ Len(replyq[r]) = 1
    /\ replyq[r][1].err = err
    /\ replyq[r][1].results = <<>>

\* C1: a request never has two result events; once it is dismantled other
\* than by a silent cleanup it has exactly one; and a worker invocation that
\* finds the deadline passed (no shutdown, no ERR__DESTROY) leaves the request
\* dismantled with its one result posted.
C1_ExactlyOneResult ==
    [][\A r \in Reqs :
          /\ Len(replyq'[r]) <= 1
          /\ Dismantled(r)' /\ rko'[r].exit \notin SilentExits
                => Len(replyq'[r]) = 1
          /\ ~Dismantled(r)' => replyq'[r] = <<>>
          /\ ( /\ WorkerInvoked(r)
               /\ now >= rko[r].abs_timeout
               /\ ~terminating
               /\ EntryErr(r) # ERR__DESTROY )
                => Dismantled(r)' /\ Len(replyq'[r]) = 1]_vars

\* a request whose timer and whose response both came is dismantled with its
\* one result, a timeout
C1_Witness ==
    \E r \in Reqs :
        /\ rko[r].mem = "freed"
        /\ wire[r] = "replied"
        /\ rko[r].tmr = "fired"
        /\ OnlyFailure(r, ERR__TIMED_OUT)

\* this step is the response callback of request r
ResponseCallback(r) == Dequeues(r) /\ Head(rk_ops).type = "resp"

\* C3: when the response callback of a request runs after the timer has
\* raised ERR__TIMED_OUT on it in WAIT_RESPONSE, the callback finds the
\* payload empty, only drops its reference, leaves the rko and the
\* application's queue as they are, and the timeout result of a dismantled
\* request stays its only event.
C3_LateResponseDropped ==
    [][\A r \in Reqs :
          /\ ( /\ ResponseCallback(r)
               /\ rko[r].state = STATE_WAIT_RESPONSE
               /\ rko[r].rko_err = ERR__TIMED_OUT )
                => /\ ~eonce[r].rko
                   /\ eonce'[r] = [eonce[r] EXCEPT !.refcnt = @ - 1]
                   /\ rko' = rko
                   /\ replyq' = replyq
                   /\ waiters' = waiters /\ wire' = wire
          /\ ( /\ rko'[r].state = STATE_WAIT_RESPONSE
               /\ rko'[r].exit = "failed"
               /\ rko'[r].rko_err = ERR__TIMED_OUT )
                => OnlyFailure(r, ERR__TIMED_OUT)']_vars

\* the response of a request that timed out in WAIT_RESPONSE has been dropped
C3_Witness ==
    \E r \in Reqs :
        /\ rko[r].mem = "freed"
        /\ rko[r].state = STATE_WAIT_RESPONSE
        /\ rko[r].exit = "failed"
        /\ wire[r] = "replied"
        /\ \A j \in 1..Len(rk_ops) : rk_ops[j].r # r
        /\ OnlyFailure(r, ERR__TIMED_OUT)

Range(seq) == {seq[j] : j \in 1..Len(seq)}

\* the number of times the rko of request r is on rk_ops
OpsFor(q, r) == Cardinality({j \in 1..Len(q) : q[j] = [type |-> "op", r |-> r]})

\* this step is the timer callback of request r
TimerFires(r) == rko[r].tmr = "armed" /\ rko'[r].tmr = "fired"

\* this step is a broker state change that triggers the eonce of request r
StateWake(r) == up' # up /\ r \in Range(waiters)

\* C4: a wake source (timer callback, broker state change, response callback)
\* that finds the payload taken only decrements the refcount and leaves the
\* rko's state, rko_err and reply_buf, the queues and the results as they
\* are; one that finds the payload takes it and wakes the worker once; so the
\* rko is never on rk_ops twice, and while it is there after its timer was
\* started the payload is empty.
C4_OneWakePerArming ==
    [][\A r \in Reqs :
          /\ ( /\ TimerFires(r) \/ StateWake(r) \/ ResponseCallback(r)
               /\ ~eonce[r].rko )
                => /\ eonce'[r] = [eonce[r] EXCEPT !.refcnt = @ - 1]
                   /\ rko'[r].state = rko[r].state
                   /\ rko'[r].rko_err = rko[r].rko_err
                   /\ rko'[r].reply_buf = rko[r].reply_buf
                   /\ rko'[r].mem = rko[r].mem
                   /\ OpsFor(rk_ops', r) = OpsFor(rk_ops, r)
                   /\ replyq'[r] = replyq[r]
          /\ ( /\ TimerFires(r) \/ StateWake(r)
               /\ eonce[r].rko )
                => /\ eonce'[r] = [refcnt |-> eonce[r].refcnt - 1, rko |-> FALSE]
                   /\ OpsFor(rk_ops', r) = OpsFor(rk_ops, r) + 1
          /\ ResponseCallback(r) /\ eonce[r].rko => WorkerInvoked(r)
          /\ OpsFor(rk_ops', r) <= 1
          /\ OpsFor(rk_ops', r) = 1 /\ rko'[r].tmr # "idle" => ~eonce'[r].rko]_vars

\* the timer of a waiting request fired after a broker state change had taken
\* the payload: the rko is on rk_ops once, without the timer's error
C4_Witness ==
    \E r \in Reqs :
        /\ rko[r].tmr = "fired"
        /\ rko[r].rko_err = NO_ERROR
        /\ rko[r].state \in {STATE_WAIT_BROKER, STATE_WAIT_CONTROLLER}
        /\ OpsFor(rk_ops, r) = 1
        /\ ~eonce[r].rko

\* the broker the Init state will look up
InitTarget(k) ==
    IF k.options.broker # -1 THEN k.options.broker ELSE k.broker_id

DirectPath(k) ==
    <<STATE_INIT,
      IF InitTarget(k) # -1 THEN STATE_WAIT_BROKER ELSE STATE_WAIT_CONTROLLER,
      STATE_CONSTRUCT_REQUEST, STATE_WAIT_RESPONSE>>

\* C5: a first worker invocation before the deadline that finds its broker
\* up and whose request is built goes through Init, WaitBroker or
\* WaitController and ConstructRequest to WaitResponse with the request sent;
\* and a response callback before the deadline with no error and a reply the
\* parser accepts posts the parser's result, with its per-element results and
\* no request-level error, as the only event and dismantles the request.
C5_HappyPath ==
    [][\A r \in Reqs :
          /\ ( /\ WorkerInvoked(r)
               /\ rko[r].state = STATE_INIT
               /\ ~terminating
               /\ EntryErr(r) = NO_ERROR
               /\ now < rko[r].abs_timeout
               /\ up[InitTarget(rko[r])]
               /\ rko'[r].exit # "request_failed" )
                => /\ rko'[r].path = DirectPath(rko[r])
                   /\ rko'[r].state = STATE_WAIT_RESPONSE
                   /\ wire[r] = "none" /\ wire'[r] = "sent"
                   /\ replyq'[r] = <<>>
                   /\ Outstanding(r)'
          /\ ( /\ WorkerInvoked(r)
               /\ ResponseCallback(r)
               /\ ~terminating
               /\ Head(rk_ops).err = NO_ERROR
               /\ now < rko[r].abs_timeout
               /\ cbs_parse(rko[r], Head(rk_ops).reply).err = NO_ERROR )
                => /\ replyq'[r] =
                        <<cbs_parse(rko[r], Head(rk_ops).reply).result>>
                   /\ replyq'[r][1].err = NO_ERROR
                   /\ Len(replyq'[r][1].results) = Len(rko[r].args)
                   /\ \A j \in 1..Len(rko[r].args) :
                         replyq'[r][1].results[j] # NULL
                   /\ rko'[r].path = DirectPath(rko[r])
                   /\ rko'[r].exit = "parsed"
                   /\ rko'[r].mem = "freed"
                   /\ Dismantled(r)']_vars

\* a request answered before its deadline, dismantled with the parser's result
C5_Witness ==
    \E r \in Reqs :
        /\ rko[r].exit = "parsed"
        /\ rko[r].mem = "freed"
        /\ now < rko[r].abs_timeout
        /\ Len(replyq[r]) = 1
        /\ replyq[r][1].err = NO_ERROR
        /\ Len(replyq[r][1].results) = 2

\* C6: a worker invocation that finds the instance terminating, or rko_err
\* ERR__DESTROY, in any state, posts nothing, leaves the state as it is and
\* dismantles the live request; a request dismantled that way has no result
\* event.
C6_SilentShutdown ==
    [][\A r \in Reqs :
          /\ ( /\ WorkerInvoked(r)
               /\ terminating \/ EntryErr(r) = ERR__DESTROY )
                => /\ rko[r].mem = "alloc"
                   /\ rko'[r].mem = "freed"
                   /\ Dismantled(r)'
                   /\ rko'[r].exit \in SilentExits
                   /\ rko'[r].state = rko[r].state
                   /\ replyq' = replyq
                   /\ rk_ops' = Tail(rk_ops)
          /\ rko'[r].exit \in SilentExits => replyq'[r] = <<>>]_vars

\* every request was outstanding at the shutdown and is dismantled silently,
\* one of them in WAIT_RESPONSE with its reply buffer attached
C6_Witness ==
    /\ terminating
    /\ \A r \in Reqs :
          /\ rko[r].mem = "freed"
          /\ rko[r].exit = "terminating"
          /\ replyq[r] = <<>>
    /\ \E r \in Reqs :
          /\ rko[r].state = STATE_WAIT_RESPONSE
          /\ rko[r].reply_buf # NULL

\* the request is on the engine and no protocol request was sent for it
Unsent(r) == Outstanding(r) /\ rko[r].state # STATE_WAIT_RESPONSE

\* C2: while the instance lives, every request on the engine is eventually
\* dismantled with one result posted; and a request not yet sent eventually
\* has a timeout as its only event, a request-level failure with no
\* per-element results, unless the broker it looks up is up at some time.
C2_EventuallyResult ==
    \A r \in Reqs :
        /\ Outstanding(r) ~> (Dismantled(r) /\ Len(replyq[r]) = 1)
        /\ Unsent(r) ~> (OnlyFailure(r, ERR__TIMED_OUT)
                            \/ up[InitTarget(rko[r])])

\* a request whose broker is down, dismantled by its timeout
C2_Witness ==
    \E r \in Reqs :
        /\ Dismantled(r)
        /\ rko[r].state \in {STATE_WAIT_BROKER, STATE_WAIT_CONTROLLER}
        /\ rko[r].tmr = "fired"
        /\ ~up[InitTarget(rko[r])]
        /\ OnlyFailure(r, ERR__TIMED_OUT)

(***************************************************************************)
(* Properties of the pre-flight.                                           *)
(***************************************************************************)
\* the submission of request r was refused by the pre-flight
PreflightFailed(r) ==
    /\ rko[r].mem # "none"
    /\ rko[r].rko_type \in ConfigOps
    /\ rd_kafka_ConfigResource_get_single_broker_id(rko[r].args,
                                                    long_bits).err # NO_ERROR

\* C7 as stated: a submission the pre-flight refuses enqueues no handle on
\* rk_ops and posts no event on the application's queue.
C7_NoEventOnPreflightFailure ==
    \A r \in Reqs :
        PreflightFailed(r) => OpsFor(rk_ops, r) = 0 /\ replyq[r] = <<>>

\* C7: a submission the pre-flight refuses is never on rk_ops and never
\* enters the worker (state INIT, timer never started); from the constructor
\* call on it is dismantled, and its one event is the request-level failure
\* with the pre-flight's error.
C7_PreflightFailurePosted ==
    \A r \in Reqs :
        PreflightFailed(r) =>
            /\ \A j \in 1..Len(rk_ops) : rk_ops[j].r # r
            /\ Dismantled(r)
            /\ rko[r].state = STATE_INIT
            /\ rko[r].tmr = "idle"
            /\ rko[r].exit = "none"
            /\ OnlyFailure(
                   r, rd_kafka_ConfigResource_get_single_broker_id(
                          rko[r].args, long_bits).err)
            /\ replyq[r][1].evtype = EventType(rko[r].rko_type)

\* AlterConfigs was submitted with two Broker resources, "1" and "2"
C7_Witness ==
    \E r \in Reqs :
        /\ rko[r].rko_type = OP_ALTERCONFIGS
        /\ rko[r].args = <<ConfigResource(RESOURCE_BROKER, <<"1">>),
                           ConfigResource(RESOURCE_BROKER, <<"2">>)>>
        /\ OnlyFailure(r, ERR__CONFLICT)
        /\ OpsFor(rk_ops, r) = 0

\* the positions of the Broker resources of an args list
BrokerEntries(args) ==
    {i \in 1..Len(args) : args[i].restype = RESOURCE_BROKER}

\* the name is spaces, an optional sign and one or more decimal digits
DenotesInteger(name) ==
    LET start == SkipSpace(name, 1)
        first == IF start <= Len(name) /\ name[start] \in {"-", "+"}
                 THEN start + 1 ELSE start
    IN /\ first <= Len(name)
       /\ \A j \in first..Len(name) : IsDigit(name[j])

IsNegative(name) ==
    LET start == SkipSpace(name, 1)
    IN start <= Len(name) /\ name[start] = "-"

\* the digits of a name that denotes an integer
DigitsOf(name) ==
    LET start == SkipSpace(name, 1)
        first == IF name[start] \in {"-", "+"} THEN start + 1 ELSE start
    IN SubSeq(name, first, Len(name))

Int32MaxDigits == <<"2", "1", "4", "7", "4", "8", "3", "6", "4", "7">>

\* a sequence of digits, with no leading zero, that denotes at most INT32_MAX
AtMostInt32Max(digits) ==
    \/ Len(digits) < 10
    \/ /\ Len(digits) = 10
       /\ \/ digits = Int32MaxDigits
          \/ \E j \in 1..10 :
                /\ \A h \in 1..(j - 1) : digits[h] = Int32MaxDigits[h]
                /\ DigitVal(digits[j]) < DigitVal(Int32MaxDigits[j])

RECURSIVE DigitsValue(_)
DigitsValue(digits) ==
    IF digits = <<>> THEN 0
    ELSE DigitsValue(SubSeq(digits, 1, Len(digits) - 1)) * 10
         + DigitVal(digits[Len(digits)])

\* C9 as stated, for an args list with one Broker resource: a name that does
\* not denote an integer, or denotes a negative one, fails with INVALID_ARG;
\* an accepted name denotes an integer in 0..INT32_MAX and the broker id is
\* that integer.
C9_NameParsedAsInt32 ==
    pf.out # NULL =>
        \A i \in BrokerEntries(pf.args) :
            Cardinality(BrokerEntries(pf.args)) = 1 =>
                LET name == pf.args[i].name
                IN /\ ~DenotesInteger(name) \/ IsNegative(name)
                        => pf.out.err = ERR__INVALID_ARG
                   /\ pf.out.err = NO_ERROR
                        => /\ DenotesInteger(name)
                           /\ AtMostInt32Max(DigitsOf(name))
                           /\ pf.out.broker_id = DigitsValue(DigitsOf(name))

\* on a platform with 64-bit longs the Broker resource "4294967296" was
\* accepted, as broker 0
C9_Witness ==
    /\ long_bits = 64
    /\ pf.args = <<ConfigResource(RESOURCE_BROKER,
                     <<"4", "2", "9", "4", "9", "6", "7", "2", "9", "6">>)>>
    /\ pf.out = [err |-> NO_ERROR, broker_id |-> 0]

\* C8 as stated: with more than one Broker resource the outcome is CONFLICT
\* whatever their names and positions; with exactly one that is accepted the
\* broker id is the integer its name denotes; with none the broker id is -1.
C8_SingleBrokerTarget ==
    pf.out # NULL =>
        LET n == Cardinality(BrokerEntries(pf.args))
        IN /\ n > 1 => pf.out.err = ERR__CONFLICT
           /\ n = 1 /\ pf.out.err = NO_ERROR
                => \A i \in BrokerEntries(pf.args) :
                      /\ DenotesInteger(pf.args[i].name)
                      /\ AtMostInt32Max(DigitsOf(pf.args[i].name))
                      /\ pf.out.broker_id =
                            DigitsValue(DigitsOf(pf.args[i].name))
           /\ n = 0 => pf.out = [err |-> NO_ERROR, broker_id |-> -1]

\* two Broker resources, "x" and "1", were refused with INVALID_ARG
C8_Witness ==
    /\ pf.args = <<ConfigResource(RESOURCE_BROKER, <<"x">>),
                   ConfigResource(RESOURCE_BROKER, <<"1">>)>>
    /\ pf.out # NULL
    /\ pf.out.err = ERR__INVALID_ARG

(***************************************************************************)
(* Properties of the response parsers.                                     *)
(***************************************************************************)
\* the key of an arg or of a result element
KeyOf(optype, x) ==
    IF optype \in TopicOps THEN <<x.topic>> ELSE <<x.restype, x.name>>

\* C10: in the result of every response a parser accepts, each element that
\* is present at a position has the key of the arg at that position.
C10_ResultKeysByPosition ==
    pr.out # NULL /\ pr.out.err = NO_ERROR =>
        LET results == pr.out.result.results
            optype  == pr.req.rko_type
        IN \A j \in 1..Len(results) :
              results[j] # NULL =>
                  /\ j <= Len(pr.req.args)
                  /\ KeyOf(optype, results[j]) = KeyOf(optype, pr.req.args[j])

\* a response that returned the elements of two args in the opposite order
\* was accepted
C10_Witness ==
    /\ pr.out # NULL
    /\ pr.out.err = NO_ERROR
    /\ Len(pr.req.args) = 2
    /\ Len(pr.reply.elems) = 2
    /\ Len(pr.out.result.results) = 2
    /\ KeyOf(pr.req.rko_type, pr.req.args[1])
         # KeyOf(pr.req.rko_type, pr.req.args[2])
    /\ pr.reply.elems[1].error_code = NO_ERROR
    /\ pr.out.result.results[1] # NULL
    /\ pr.out.result.results[2] # NULL
    /\ IF pr.req.rko_type \in TopicOps
       THEN pr.reply.elems[1].topic = pr.req.args[2].topic
       ELSE pr.reply.elems[1].res_name = pr.req.args[2].name
            /\ pr.reply.elems[1].res_type = pr.req.args[2].restype

\* the response elements a parser reads: the first cnt of the buffer
ReadElems(reply) ==
    SubSeq(reply.elems, 1,
           IF reply.cnt < Len(reply.elems) THEN reply.cnt ELSE Len(reply.elems))

\* does the response hold an element of an unknown resource type
HasUnknownType(optype, reply) ==
    /\ optype \in ConfigOps
    /\ \E j \in 1..Len(ReadElems(reply)) : ReadElems(reply)[j].res_type < 0

\* C11: the result of every response a parser accepts has one element for
\* each arg, none of them missing, unless a config response held an element
\* of an unknown resource type.
C11_ResultsCoverArgs ==
    ( /\ pr.out # NULL
      /\ pr.out.err = NO_ERROR
      /\ ~HasUnknownType(pr.req.rko_type, pr.reply) )
        => /\ Len(pr.out.result.results) = Len(pr.req.args)
           /\ \A j \in 1..Len(pr.out.result.results) :
                 pr.out.result.results[j] # NULL

\* a topic response that declares and holds one element, the second of two
\* distinct args, was accepted: the result has nothing at the first position
C11_Witness ==
    /\ pr.out # NULL
    /\ pr.out.err = NO_ERROR
    /\ pr.req.rko_type \in TopicOps
    /\ Len(pr.req.args) = 2
    /\ pr.req.args[1].topic # pr.req.args[2].topic
    /\ pr.reply.cnt = 1
    /\ Len(pr.reply.elems) = 1
    /\ pr.reply.elems[1].topic = pr.req.args[2].topic
    /\ Len(pr.out.result.results) = 2
    /\ pr.out.result.results[1] = NULL
    /\ pr.out.result.results[2] # NULL

\* the key of a response element
ElemKey(optype, el) ==
    IF optype \in TopicOps THEN <<el.topic>> ELSE <<el.res_type, el.res_name>>

\* the config entries of the response are not protocol errors: no synonym
\* count over the limit, no synonym without a name
EntriesWellFormed(optype, reply) ==
    optype = OP_DESCRIBECONFIGS =>
        \A j \in 1..Len(reply.elems) :
            \A ci \in 1..Len(reply.elems[j].entries) :
                DescribeConfigs_entry(reply.ApiVersion,
                                      reply.elems[j].entries[ci]) # NULL

\* the response holds exactly one element for each arg, with the arg's key,
\* in some order, and is no protocol error
IsEcho(req, reply) ==
    /\ EntriesWellFormed(req.rko_type, reply)
    /\ reply.cnt = Len(reply.elems)
    /\ Len(reply.elems) = Len(req.args)
    /\ \E p \in Permutations(1..Len(req.args)) :
          \A j \in 1..Len(req.args) :
              ElemKey(req.rko_type, reply.elems[j])
                  = KeyOf(req.rko_type, req.args[p[j]])

DistinctKeys(req) ==
    \A i, j \in 1..Len(req.args) :
        KeyOf(req.rko_type, req.args[i]) = KeyOf(req.rko_type, req.args[j])
            => i = j

\* the response was accepted and the result has the key of each arg at the
\* arg's position
RoundTrips ==
    /\ pr.out.err = NO_ERROR
    /\ Len(pr.out.result.results) = Len(pr.req.args)
    /\ \A j \in 1..Len(pr.req.args) :
          /\ pr.out.result.results[j] # NULL
          /\ KeyOf(pr.req.rko_type, pr.out.result.results[j])
                = KeyOf(pr.req.rko_type, pr.req.args[j])

\* C12 as stated: every echo of the args of a request, in any order, is
\* accepted and the result's keys equal the args' keys position by position.
C12_EchoRoundTrip ==
    pr.out # NULL /\ IsEcho(pr.req, pr.reply) => RoundTrips

\* C12: every echo of args whose keys are pairwise distinct, in any order,
\* is accepted and the result's keys equal the args' keys position by position.
C12_DistinctEchoRoundTrip ==
    pr.out # NULL /\ IsEcho(pr.req, pr.reply) /\ DistinctKeys(pr.req)
        => RoundTrips

\* DeleteTopics of two different topics answered in the opposite order
C12_Witness ==
    /\ pr.out # NULL
    /\ pr.req.rko_type = OP_DELETETOPICS
    /\ Len(pr.req.args) = 2
    /\ DistinctKeys(pr.req)
    /\ IsEcho(pr.req, pr.reply)
    /\ pr.reply.elems[1].topic = pr.req.args[2].topic
    /\ RoundTrips

(***************************************************************************)
(* Properties of the engine's results.                                     *)
(***************************************************************************)
\* this step runs the parser of request r on the reply its response
\* callback brought: the callback found the payload, with no error, before
\* the deadline, the instance not terminating
ParsesReply(r) ==
    /\ ResponseCallback(r)
    /\ WorkerInvoked(r)
    /\ ~terminating
    /\ Head(rk_ops).err = NO_ERROR
    /\ now < rko[r].abs_timeout

LookedUp(optype, reply) ==
    SelectSeq(ReadElems(reply),
              LAMBDA el : optype \in TopicOps
                          \/ rd_kafka_ConfigResource_new(el.res_type,
                                                         el.res_name) # NULL)

\* an element of the response has a key that no arg has
HasForeignElement(req, reply) ==
    \E j \in 1..Len(LookedUp(req.rko_type, reply)) :
        \A a \in 1..Len(req.args) :
            ElemKey(req.rko_type, LookedUp(req.rko_type, reply)[j])
                # KeyOf(req.rko_type, req.args[a])

\* two elements of the response have the same key
HasRepeatedElement(req, reply) ==
    \E i, j \in 1..Len(LookedUp(req.rko_type, reply)) :
        /\ i < j
        /\ ElemKey(req.rko_type, LookedUp(req.rko_type, reply)[i])
              = ElemKey(req.rko_type, LookedUp(req.rko_type, reply)[j])

\* C14: a response that passes the count check and holds an element whose
\* key is not in the args, or two elements of the same key, is rejected by
\* each parser: parsing fails, no result is returned, and the element in
\* hand is freed, once, the process going on.
C14_BadElementRejected ==
    ( /\ pr.out # NULL
      /\ pr.reply.cnt <= Len(pr.req.args)
      /\ HasForeignElement(pr.req, pr.reply)
            \/ HasRepeatedElement(pr.req, pr.reply) )
        => /\ pr.out.err = ERR__BAD_MSG
           /\ pr.out.result = NULL
           /\ pr.out.elem_destroyed = 1
           /\ ~pr.aborted

\* DescribeConfigs of one resource answered with another resource: the
\* ConfigResource built for the element was destroyed twice and the process
\* was aborted
C14_Witness ==
    /\ pr.out # NULL
    /\ pr.req.rko_type = OP_DESCRIBECONFIGS
    /\ Len(pr.req.args) = 1
    /\ pr.reply.cnt = 1
    /\ Len(pr.reply.elems) = 1
    /\ HasForeignElement(pr.req, pr.reply)
    /\ pr.out.elem_destroyed = 2
    /\ pr.aborted

\* the same holds of the four other parsers, which free the element once
C14_OtherParsersReject ==
    ( /\ pr.out # NULL
      /\ pr.req.rko_type # OP_DESCRIBECONFIGS
      /\ pr.reply.cnt <= Len(pr.req.args)
      /\ HasForeignElement(pr.req, pr.reply)
            \/ HasRepeatedElement(pr.req, pr.reply) )
        => /\ pr.out.err = ERR__BAD_MSG
           /\ pr.out.result = NULL
           /\ pr.out.elem_destroyed = 1
           /\ ~pr.aborted

\* the element error the application is to see for a broker-reported one
DeliveredErr(operation_timeout, error_code) ==
    IF error_code = ERR_REQUEST_TIMED_OUT /\ operation_timeout <= 0
    THEN NO_ERROR
    ELSE error_code

\* C15: in every result a topic parser returns, the element of a topic
\* carries the error the broker reported for it, but for REQUEST_TIMED_OUT
\* under an operation_timeout <= 0, which is delivered as no error with no
\* error string; with an operation_timeout > 0 REQUEST_TIMED_OUT is
\* delivered as it is.
C15_TimedOutRewrite ==
    ( /\ pr.out # NULL
      /\ pr.out.err = NO_ERROR
      /\ pr.req.rko_type \in TopicOps ) =>
        LET results == pr.out.result.results
            ot      == pr.req.options.operation_timeout
        IN \A j \in 1..Len(results) : \A i \in 1..Len(ReadElems(pr.reply)) :
              ( /\ results[j] # NULL
                /\ results[j].topic = ReadElems(pr.reply)[i].topic ) =>
                  /\ results[j].err
                        = DeliveredErr(ot, ReadElems(pr.reply)[i].error_code)
                  /\ results[j].err = NO_ERROR
                        <=> results[j].errstr = NULLSTR
                  /\ ( /\ ReadElems(pr.reply)[i].error_code
                             = ERR_REQUEST_TIMED_OUT
                       /\ ot > 0 ) => results[j].err = ERR_REQUEST_TIMED_OUT

\* a request of operation_timeout 0 whose response reported REQUEST_TIMED_OUT
\* for one topic and another error for a second topic
C15_Witness ==
    /\ pr.out # NULL
    /\ pr.out.err = NO_ERROR
    /\ pr.req.rko_type \in TopicOps
    /\ pr.req.options.operation_timeout = 0
    /\ Len(pr.reply.elems) = 2
    /\ pr.reply.cnt = 2
    /\ pr.reply.elems[1].error_code = ERR_REQUEST_TIMED_OUT
    /\ pr.reply.elems[2].error_code = ERR_TOPIC_ALREADY_EXISTS
    /\ pr.out.result.results[1] # NULL
    /\ pr.out.result.results[1].topic = pr.reply.elems[1].topic
    /\ pr.out.result.results[1].err = NO_ERROR
    /\ pr.out.result.results[1].errstr = NULLSTR
    /\ pr.out.result.results[2].err = ERR_TOPIC_ALREADY_EXISTS

\* every config entry of a result of the DescribeConfigs parser: the entries
\* of each resource and the synonyms of each entry
ConfigEntriesOf(result) ==
    LET results == result.results
        own == UNION {{results[j].config[ci] :
                          ci \in 1..Len(results[j].config)} :
                      j \in {j \in 1..Len(results) : results[j] # NULL}}
    IN own \cup UNION {{e.synonyms[si] : si \in 1..Len(e.synonyms)} :
                       e \in own}

\* C16: every config entry the DescribeConfigs parser produces, from a
\* response of ApiVersion 0 or 1, has is_default set if and only if its
\* source is DEFAULT_CONFIG.
C16_DefaultIffSource ==
    ( /\ pr.out # NULL
      /\ pr.out.err = NO_ERROR
      /\ pr.req.rko_type = OP_DESCRIBECONFIGS ) =>
        \A e \in ConfigEntriesOf(pr.out.result) :
            e.is_default <=> e.source = CONFIG_SOURCE_DEFAULT_CONFIG

\* a response of ApiVersion 1 with a config entry that has a synonym of
\* source DEFAULT_CONFIG was accepted and the synonym is not marked default
C16_Witness ==
    /\ pr.out # NULL
    /\ pr.out.err = NO_ERROR
    /\ pr.req.rko_type = OP_DESCRIBECONFIGS
    /\ pr.reply.ApiVersion = 1
    /\ \E e \in ConfigEntriesOf(pr.out.result) :
          /\ e.is_synonym
          /\ e.source = CONFIG_SOURCE_DEFAULT_CONFIG
          /\ ~e.is_default

\* the config entries proper, the synonyms left out, satisfy the rule, and
\* is_default = true of ApiVersion 0 gives the pair that source =
\* DEFAULT_CONFIG of ApiVersion 1 gives
C16_EntriesDefaultIffSource ==
    ( /\ pr.out # NULL
      /\ pr.out.err = NO_ERROR
      /\ pr.req.rko_type = OP_DESCRIBECONFIGS ) =>
        \A e \in ConfigEntriesOf(pr.out.result) :
            ~e.is_synonym =>
               (e.is_default <=> e.source = CONFIG_SOURCE_DEFAULT_CONFIG)

C16_EntriesWitness ==
    /\ pr.out # NULL
    /\ pr.out.err = NO_ERROR
    /\ pr.req.rko_type = OP_DESCRIBECONFIGS
    /\ pr.reply.ApiVersion = 0
    /\ Len(pr.reply.elems[1].entries) = 2
    /\ pr.reply.elems[1].entries[1].is_default
    /\ ~pr.reply.elems[1].entries[2].is_default
    /\ pr.out.result.results[1].config[1].source
          = CONFIG_SOURCE_DEFAULT_CONFIG
    /\ pr.out.result.results[1].config[1].is_default
    /\ pr.out.result.results[1].config[2].source
          = CONFIG_SOURCE_UNKNOWN_CONFIG

\* the ways a worker ends a request with a request-level failure: the
\* deadline it finds passed, an error raised on the rko (the timer's timeout,
\* a transport error), the request builder's rejection, the parser's failure
FailureExits == {"timed_out", "failed", "request_failed", "parse_failed"}

ApiOf(options) ==
    IF options.for_api = NULLSTR THEN NULLSTR
    ELSE CHOOSE api \in TopicOps \cup ConfigOps :
            rd_strcasecmp(api, options.for_api) = 0

\* the APIs each option applies to
AppliesTo(name) ==
    CASE name = "operation_timeout" ->
            {OP_CREATETOPICS, OP_DELETETOPICS, OP_CREATEPARTITIONS}
      [] name = "validate_only" ->
            {OP_CREATETOPICS, OP_CREATEPARTITIONS, OP_ALTERCONFIGS}
      [] name = "incremental" -> {OP_ALTERCONFIGS}
      [] OTHER -> TopicOps \cup ConfigOps

\* is the value within the range of the option
InRange(name, value) ==
    CASE name = "request_timeout"   -> value >= 0 /\ value <= 3600000
      [] name = "operation_timeout" -> value >= -1 /\ value <= 3600000
      [] name = "validate_only"     -> value \in {0, 1}
      [] name = "incremental"       -> value \in {0, 1}
      [] name = "broker"            -> value >= 0 /\ value <= INT32_MAX
      [] name = "opaque"            -> TRUE

\* the last call on the options object was a setter
SetterCalled == ao.before # NULL /\ ao.call[1] \in OptionNames

\* C18: a setter of an option that does not apply to the API the options
\* object was created for returns ERR__INVALID_ARG and leaves the object as
\* it was; a setter of an option that applies, or any setter on an object
\* created for no API, given a value in the option's range, returns no error
\* and sets the option.
C18_InapplicableOptionRefused ==
    SetterCalled =>
        IF ApiOf(ao.before) # NULLSTR
           /\ ApiOf(ao.before) \notin AppliesTo(ao.call[1])
        THEN /\ ao.ret = ERR__INVALID_ARG
             /\ ao.options = ao.before
        ELSE InRange(ao.call[1], ao.call[2]) =>
                /\ ao.ret = NO_ERROR
                /\ ao.options[ao.call[1]].v = ao.call[2]
                /\ \A other \in OptionNames \ {ao.call[1]} :
                      ao.options[other] = ao.before[other]

\* on an options object created for DescribeConfigs, whose request_timeout
\* had been set, the setter of incremental was refused
C18_Witness ==
    /\ SetterCalled
    /\ ApiOf(ao.before) = OP_DESCRIBECONFIGS
    /\ ao.call = <<"incremental", 1>>
    /\ ao.ret = ERR__INVALID_ARG
    /\ ao.options = ao.before
    /\ ao.options.request_timeout.v = 5
    /\ ao.options.incremental.v = 0

(***************************************************************************)
(* Properties of the engine's requests.                                    *)
(***************************************************************************)
\* the worker of request r ended it with a result: its submission was
\* accepted and the end was not a silent cleanup
EndedByWorker(r) ==
    /\ Dismantled(r)
    /\ rko[r].exit \in FailureExits \cup {"parsed"}

\* C19, as stated: a request of request_timeout 0 that its worker ended had
\* its timer armed in the INIT state, and its one result is ERR__TIMED_OUT.
C19_ZeroTimeoutArmsTimer ==
    \A r \in Reqs :
        ( /\ rko[r].options.request_timeout = 0
          /\ EndedByWorker(r) )
            => /\ rko[r].tmr # "idle"
               /\ OnlyFailure(r, ERR__TIMED_OUT)

\* C19: a request of request_timeout 0 never has its timer armed and never
\* leaves the INIT state: the first invocation of its worker finds the
\* deadline passed, and the request its worker ended has ERR__TIMED_OUT as
\* its one result.
C19_ZeroTimeoutTimesOut ==
    \A r \in Reqs :
        ( /\ rko[r].mem # "none"
          /\ rko[r].options.request_timeout = 0 )
            => /\ rko[r].tmr = "idle"
               /\ rko[r].path = <<STATE_INIT>>
               /\ wire[r] = "none"
               /\ EndedByWorker(r)
                    => /\ rko[r].exit = "timed_out"
                       /\ OnlyFailure(r, ERR__TIMED_OUT)
                       /\ replyq[r][1].errstr # NULLSTR

\* a request of request_timeout 0 ended by its worker in the INIT state
\* with the timeout as its one result, its timer never armed
C19_Witness ==
    \E r \in Reqs :
        /\ rko[r].options.request_timeout = 0
        /\ rko[r].mem = "freed"
        /\ rko[r].exit = "timed_out"
        /\ rko[r].state = STATE_INIT
        /\ rko[r].tmr = "idle"
        /\ OnlyFailure(r, ERR__TIMED_OUT)

\* the worker returned HANDLED for request r and its caller destroyed the op
Destroyed(r) == rko[r].mem = "freed"

\* the ops of request r on the main ops queue q: the rko itself enqueued for
\* its worker
QueuedOps(q, r) ==
    {i \in 1..Len(q) : q[i].type = "op" /\ q[i].r = r}

\* C20: once the worker has returned HANDLED for a request, the payload slot
\* of its eonce does not hold the rko, the rko is not on the ops queue, and
\* no step, be it a timer trigger, a broker state trigger or the response
\* callback, enqueues it, invokes the worker on it (no result is posted, no
\* state changes) or writes its rko_err or reply_buf.
C20_NoUseAfterDestroy ==
    [][\A r \in Reqs :
          Destroyed(r) =>
              /\ ~eonce[r].rko /\ ~eonce'[r].rko
              /\ QueuedOps(rk_ops, r) = {} /\ QueuedOps(rk_ops', r) = {}
              /\ rko'[r] = rko[r]
              /\ replyq'[r] = replyq[r]
              /\ wire'[r] = wire[r] \/ ~ResponseCallback(r)]_vars

\* the response of a request arrives after the request was destroyed on its
\* timeout in WAIT_RESPONSE, and a broker changes state while the eonce of a
\* request destroyed in WAIT_BROKER or WAIT_CONTROLLER is still registered
C20_Witness ==
    \E r, q \in Reqs :
        /\ Destroyed(r)
        /\ rko[r].state = STATE_WAIT_RESPONSE
        /\ rk_ops # <<>>
        /\ Head(rk_ops).type = "resp"
        /\ Head(rk_ops).r = r
        /\ eonce[r].refcnt > 0
        /\ Destroyed(q)
        /\ \E i \in 1..Len(waiters) : waiters[i] = q

(***************************************************************************)
(* Properties of the eonce and of the worker's state machine.              *)
(***************************************************************************)
\* 1 if the condition holds, else 0
Count(cond) == IF cond THEN 1 ELSE 0

\* the sources of request r's eonce that have not run yet: the timer that
\* is armed, the registrations for a broker state change, the protocol
\* request whose response callback has not run
OutstandingSources(r) ==
    Count(rko[r].tmr = "armed")
    + Cardinality({i \in 1..Len(waiters) : waiters[i] = r})
    + Count(wire[r] = "sent")
    + Cardinality({i \in 1..Len(rk_ops) :
                      rk_ops[i].type = "resp" /\ rk_ops[i].r = r})

\* C21: the refcnt of a request's eonce is, in every state, the reference
\* of the request (held from the submission to the destroy) plus one for
\* each source that has not run yet: it is never negative, and it is zero
\* once the request is destroyed and every source has run.
C21_RefcntBalanced ==
    \A r \in Reqs :
        /\ eonce[r].refcnt >= 0
        /\ eonce[r].refcnt = Count(rko[r].eonce) + OutstandingSources(r)
        /\ (Dismantled(r) /\ OutstandingSources(r) = 0)
              => eonce[r].refcnt = 0

\* a request that armed its timer, sent its protocol request and was
\* destroyed on the response, its timer stopped: every source has run and
\* the refcnt is back to zero
C21_Witness ==
    \E r \in Reqs :
        /\ Destroyed(r)
        /\ rko[r].exit \in {"parsed", "parse_failed"}
        /\ rko[r].tmr = "stopped"
        /\ rko[r].state = STATE_WAIT_RESPONSE
        /\ wire[r] = "replied"
        /\ OutstandingSources(r) = 0
        /\ eonce[r].refcnt = 0

\* the fields of the rko that are given at its submission
Submitted(k) ==
    [rko_type |-> k.rko_type, reply_event_type |-> k.reply_event_type,
     args |-> k.args, options |-> k.options, replyq |-> k.replyq]

\* C22: no step changes the rko_type, reply_event_type, args, options or
\* replyq of a request that was submitted; the invocation of the worker that
\* leaves the INIT state with a broker set in the options has copied it to
\* broker_id and left the options as they were.
C22_SubmittedFieldsKept ==
    [][\A r \in Reqs :
          rko[r].mem # "none" =>
              /\ Submitted(rko'[r]) = Submitted(rko[r])
              /\ rko[r].replyq = "rkqu"
              /\ rko[r].reply_event_type = EventType(rko[r].rko_type)
              /\ ( /\ rko[r].state = STATE_INIT
                   /\ rko'[r].state # STATE_INIT
                   /\ rko[r].options.broker # -1 )
                    => /\ rko'[r].broker_id = rko[r].options.broker
                       /\ rko'[r].options.broker = rko[r].options.broker]_vars

\* a request with a broker set in its options went through every state and
\* was destroyed on its parsed response, its submitted fields as given
C22_Witness ==
    \E r \in Reqs :
        /\ Destroyed(r)
        /\ rko[r].exit = "parsed"
        /\ rko[r].options.broker = 1
        /\ rko[r].broker_id = 1
        /\ rko[r].args # <<>>
        /\ rko[r].replyq = "rkqu"
        /\ Len(replyq[r]) = 1

\* the result that this step's worker posted for request r, if it posted one
PostedNow(r) == SubSeq(replyq'[r], Len(replyq[r]) + 1, Len(replyq'[r]))

\* this step's worker posted one request-level failure of the given error
\* for request r and destroyed the request
FailsWith(r, err) ==
    /\ Len(PostedNow(r)) = 1
    /\ PostedNow(r)[1].err = err
    /\ PostedNow(r)[1].errstr # NULLSTR
    /\ PostedNow(r)[1].results = <<>>
    /\ Destroyed(r)'

\* C23: a worker invocation checks, in this order, the termination of the
\* instance, ERR__DESTROY, any other error on the rko, the deadline, and
\* only then the state: with an error other than ERR__DESTROY on the rko
\* (and no termination) it posts one failure of exactly that error and
\* destroys the request, in whatever state, also when the deadline has
\* passed or a reply buffer is attached.
C23_CheckOrder ==
    [][\A r \in Reqs :
          WorkerInvoked(r) =>
              /\ terminating
                    => /\ rko'[r].exit = "terminating"
                       /\ PostedNow(r) = <<>>
                       /\ Destroyed(r)'
              /\ (~terminating /\ EntryErr(r) = ERR__DESTROY)
                    => /\ rko'[r].exit = "destroy"
                       /\ PostedNow(r) = <<>>
                       /\ Destroyed(r)'
              /\ (~terminating /\ EntryErr(r) \notin {NO_ERROR, ERR__DESTROY})
                    => /\ rko'[r].exit = "failed"
                       /\ FailsWith(r, EntryErr(r))
                       /\ rko'[r].state = rko[r].state
              /\ ( /\ ~terminating
                   /\ EntryErr(r) = NO_ERROR
                   /\ now >= rko[r].abs_timeout )
                    => /\ rko'[r].exit = "timed_out"
                       /\ FailsWith(r, ERR__TIMED_OUT)
              /\ ( /\ ~terminating
                   /\ EntryErr(r) = NO_ERROR
                   /\ now < rko[r].abs_timeout )
                    => rko'[r].exit \notin
                          {"terminating", "destroy", "failed", "timed_out"}]_vars

\* a request whose response came with a transport error and a reply buffer
\* after the deadline had passed: its one result is the transport error
C23_Witness ==
    \E r \in Reqs :
        /\ Destroyed(r)
        /\ rko[r].exit = "failed"
        /\ rko[r].state = STATE_WAIT_RESPONSE
        /\ rko[r].rko_err = ERR__TRANSPORT
        /\ rko[r].reply_buf # NULL
        /\ now >= rko[r].abs_timeout
        /\ rko[r].tmr = "stopped"
        /\ OnlyFailure(r, ERR__TRANSPORT)

\* C24: a worker invocation (the instance not terminating) that finds no
\* error on the rko and the deadline passed posts one ERR__TIMED_OUT failure
\* and destroys the request, in whatever state it is; in WAIT_RESPONSE, when
\* the response callback took the rko from the eonce before the timer fired,
\* the reply buffer is attached and is not parsed.
C24_DeadlinePassed ==
    [][\A r \in Reqs :
          ( /\ WorkerInvoked(r)
            /\ ~terminating
            /\ EntryErr(r) = NO_ERROR
            /\ now >= rko[r].abs_timeout )
             => /\ FailsWith(r, ERR__TIMED_OUT)
                /\ Len(replyq'[r]) = 1
                /\ rko'[r].state = rko[r].state
                /\ rko'[r].path = rko[r].path
                /\ rko'[r].tmr # "armed"
                /\ wire'[r] = wire[r]
                /\ ResponseCallback(r)
                      => /\ rko[r].state = STATE_WAIT_RESPONSE
                         /\ rko[r].tmr = "armed"
                         /\ rko'[r].reply_buf = Head(rk_ops).reply
                         /\ rko'[r].reply_buf # NULL]_vars

\* a request in WAIT_RESPONSE whose response, delivered with no error, was
\* handled after the deadline and before the timer fired: the reply buffer
\* is attached and the one result is the timeout
C24_Witness ==
    \E r \in Reqs :
        /\ Destroyed(r)
        /\ rko[r].state = STATE_WAIT_RESPONSE
        /\ rko[r].exit = "timed_out"
        /\ rko[r].rko_err = NO_ERROR
        /\ rko[r].reply_buf # NULL
        /\ rko[r].tmr = "stopped"
        /\ OnlyFailure(r, ERR__TIMED_OUT)

\* the position of a state in the order the worker walks the states
StateRank(st) ==
    CASE st = STATE_INIT -> 0
      [] st \in {STATE_WAIT_BROKER, STATE_WAIT_CONTROLLER} -> 1
      [] st = STATE_CONSTRUCT_REQUEST -> 2
      [] st = STATE_WAIT_RESPONSE -> 3

\* the states a request walked through are a start of
\* INIT, WAIT_BROKER or WAIT_CONTROLLER, CONSTRUCT_REQUEST, WAIT_RESPONSE
PathInOrder(p) ==
    /\ Len(p) \in 1..4
    /\ \A i \in 1..Len(p) : StateRank(p[i]) = i - 1

\* C25: the state of a request only moves forward through INIT, WAIT_BROKER
\* or WAIT_CONTROLLER, CONSTRUCT_REQUEST, WAIT_RESPONSE: no step moves it
\* backwards, INIT is left by the first invocation that reaches the state
\* dispatch and is not entered again, WAIT_BROKER and WAIT_CONTROLLER never
\* follow one another though each may last over several invocations, and the
\* destroy is reached from every state without changing it.
C25_StateOrder ==
    [][\A r \in Reqs :
          rko[r].mem = "alloc" =>
             /\ StateRank(rko'[r].state) >= StateRank(rko[r].state)
             /\ StateRank(rko'[r].state) = StateRank(rko[r].state)
                   => rko'[r].state = rko[r].state
             /\ PathInOrder(rko'[r].path)
             /\ rko'[r].state = rko'[r].path[Len(rko'[r].path)]
             /\ rko'[r].state # rko[r].state => WorkerInvoked(r)
             /\ ( /\ WorkerInvoked(r)
                  /\ rko[r].state = STATE_INIT
                  /\ rko'[r].exit \notin SilentExits \cup {"failed", "timed_out"} )
                   => rko'[r].state # STATE_INIT
             /\ ( /\ WorkerInvoked(r)
                  /\ rko'[r].exit \in SilentExits \cup {"failed", "timed_out"} )
                   => rko'[r].state = rko[r].state]_vars

\* one request walked all the states through WAIT_BROKER and was destroyed
\* after its reply was parsed, while another one waits for the controller
\* after an invocation that found it in WAIT_CONTROLLER already
C25_Witness ==
    \E r, s \in Reqs :
        /\ Destroyed(r)
        /\ rko[r].exit = "parsed"
        /\ rko[r].path = <<STATE_INIT, STATE_WAIT_BROKER,
                           STATE_CONSTRUCT_REQUEST, STATE_WAIT_RESPONSE>>
        /\ rko[s].mem = "alloc"
        /\ rko[s].path = <<STATE_INIT, STATE_WAIT_CONTROLLER>>
        /\ rko[s].exit = "waiting"
        /\ rko[s].tmr = "armed"

\* C26: the invocation that leaves INIT selects the target: a broker id in
\* the options other than -1 replaces the broker id of the request, also
\* one the constructor derived from a BROKER resource of the args, and
\* otherwise the broker id stays; the request then enters WAIT_BROKER if and
\* only if its broker id is not -1, WAIT_CONTROLLER otherwise, and the
\* broker id does not change afterwards.
C26_TargetSelection ==
    [][\A r \in Reqs :
          /\ ( /\ WorkerInvoked(r)
               /\ rko[r].state = STATE_INIT
               /\ rko'[r].state # STATE_INIT )
                => /\ rko'[r].broker_id =
                          IF rko[r].options.broker # -1
                          THEN rko[r].options.broker ELSE rko[r].broker_id
                   /\ rko'[r].options = rko[r].options
                   /\ rko'[r].path[2] = STATE_WAIT_BROKER
                          <=> rko'[r].broker_id # -1
                   /\ rko'[r].path[2] = STATE_WAIT_CONTROLLER
                          <=> rko'[r].broker_id = -1
          /\ (rko[r].mem = "alloc" /\ rko[r].state # STATE_INIT)
                => rko'[r].broker_id = rko[r].broker_id]_vars

\* a DescribeConfigs request whose BROKER resource names broker 2 and whose
\* options name broker 1 waits for broker 1, and an AlterConfigs request
\* with no broker in its options waits for the broker of its BROKER resource
C26_Witness ==
    \E r, s \in Reqs :
        /\ rko[r].rko_type = OP_DESCRIBECONFIGS
        /\ \E i \in 1..Len(rko[r].args) :
              rko[r].args[i] = ConfigResource(RESOURCE_BROKER, <<"2">>)
        /\ rko[r].options.broker = 1
        /\ rko[r].broker_id = 1
        /\ Len(rko[r].path) >= 2
        /\ rko[r].path[2] = STATE_WAIT_BROKER
        /\ rko[s].rko_type = OP_ALTERCONFIGS
        /\ rko[s].options.broker = -1
        /\ rko[s].broker_id = 1
        /\ Len(rko[s].path) >= 2
        /\ rko[s].path[2] = STATE_WAIT_BROKER

\* the exits of the worker through its destroy: label
HandledExits == SilentExits \cup FailureExits \cup {"parsed"}

\* C27: a worker invocation returns KEEP only from WAIT_BROKER or
\* WAIT_CONTROLLER when the lookup found no broker and registered the eonce
\* with the waiters, or from CONSTRUCT_REQUEST after the request was sent
\* and the state became WAIT_RESPONSE; every other invocation goes through
\* the common destroy and returns HANDLED, and the op is freed.
C27_KeepOnlyWaitingOrSent ==
    [][\A r \in Reqs :
          WorkerInvoked(r) =>
             /\ rko'[r].exit \in {"waiting", "sent"} \cup HandledExits
             /\ rko'[r].exit = "waiting"
                   => /\ rko'[r].mem = "alloc"
                      /\ rko'[r].state \in {STATE_WAIT_BROKER,
                                            STATE_WAIT_CONTROLLER}
                      /\ ~up[rko'[r].broker_id]
                      /\ waiters' = Append(waiters, r)
                      /\ wire'[r] = "none"
             /\ rko'[r].exit = "sent"
                   => /\ rko'[r].mem = "alloc"
                      /\ rko'[r].state = STATE_WAIT_RESPONSE
                      /\ rko[r].state # STATE_WAIT_RESPONSE
                      /\ up[rko'[r].broker_id]
                      /\ wire[r] = "none" /\ wire'[r] = "sent"
                      /\ waiters' = waiters
             /\ rko'[r].exit \in HandledExits
                   => /\ Destroyed(r)'
                      /\ ~rko'[r].eonce
                      /\ rko'[r].tmr # "armed"
                      /\ wire'[r] = wire[r]
                      /\ waiters' = waiters]_vars

\* one request was kept waiting for its broker, and another one, kept after
\* its request was sent, was destroyed by the invocation that parsed the
\* reply
C27_Witness ==
    \E r, s \in Reqs :
        /\ rko[r].mem = "alloc"
        /\ rko[r].exit = "waiting"
        /\ \E i \in 1..Len(waiters) : waiters[i] = r
        /\ Destroyed(s)
        /\ rko[s].exit = "parsed"
        /\ wire[s] = "replied"

\* this step is the common destroy of request r, in its worker
DestroyedNow(r) == rko[r].mem = "alloc" /\ rko[r].eonce /\ ~rko'[r].eonce

\* C28: the timeout timer of a request is started at most once, by the
\* worker invocation that leaves INIT and never by the constructor, with one
\* eonce source added for it; the common destroy removes that source if and
\* only if rd_kafka_timer_stop reports that it stopped the timer before its
\* callback fired, so not when the callback had fired and not when the timer
\* was never started.
C28_TimerArmedOnce ==
    [][\A r \in Reqs :
          \* the constructor leaves the timer alone
          /\ rko[r].mem = "none" => rko'[r].tmr = "idle"
          \* the timer leaves idle only in the invocation that leaves INIT
          /\ (rko[r].mem = "alloc" /\ rko'[r].tmr # rko[r].tmr)
                => \/ /\ rko[r].tmr = "idle"
                      /\ WorkerInvoked(r)
                      /\ Head(rk_ops).type = "op"
                      /\ rko[r].state = STATE_INIT
                      /\ rko'[r].state # STATE_INIT
                      /\ rko'[r].tmr \in {"armed", "stopped"}
                      /\ rko'[r].tmr_next = rko[r].abs_timeout
                   \/ /\ rko[r].tmr = "armed"
                      /\ rko'[r].tmr \in {"fired", "stopped"}
          /\ (WorkerInvoked(r) /\ rko[r].state = STATE_INIT
                               /\ rko'[r].state # STATE_INIT)
                => rko'[r].tmr # "idle"
          \* one source for the timer, next to those of the waiters and of
          \* the request sent
          /\ (rko[r].tmr = "idle" /\ rko'[r].tmr = "armed")
                => eonce'[r].refcnt =
                      eonce[r].refcnt + 1
                      + Count(Len(waiters') > Len(waiters))
                      + Count(wire'[r] = "sent")
          \* the destroy
          /\ DestroyedNow(r)
                => /\ rko'[r].tmr = "stopped"
                      <=> \/ rko[r].tmr = "armed"
                          \/ rko[r].tmr = "idle" /\ rko'[r].state # STATE_INIT
                                                 /\ rko[r].state = STATE_INIT
                   /\ rko[r].tmr = "armed"
                         => eonce'[r].refcnt =
                               eonce[r].refcnt - 2 - Count(ResponseCallback(r))
                   /\ rko[r].tmr = "fired"
                         => /\ rko'[r].tmr = "fired"
                            /\ eonce'[r].refcnt =
                                  eonce[r].refcnt - 1
                                  - Count(ResponseCallback(r))
                   /\ rko[r].tmr = "idle"
                         => eonce'[r].refcnt = eonce[r].refcnt - 1]_vars

\* one request was destroyed after its timer had fired, and another one was
\* destroyed in INIT with its timer never started: no source is left on
\* either eonce
C28_Witness ==
    \E r, s \in Reqs :
        /\ Destroyed(r)
        /\ rko[r].tmr = "fired"
        /\ eonce[r].refcnt = 0
        /\ Destroyed(s)
        /\ rko[s].state = STATE_INIT
        /\ rko[s].tmr = "idle"
        /\ rko[s].exit = "timed_out"
        /\ eonce[s].refcnt = 0

\* C29: no wake-up is lost: after every KEEP return of the worker, and in
\* every state of a request its worker has not dismantled, either the slot of
\* the eonce holds the rko, so that the next trigger of the timer or of a
\* broker state change or the disable of the response callback finds it, or
\* the rko is on the ops queue already; the lookups of WAIT_BROKER and
\* WAIT_CONTROLLER re-enable the eonce their trigger had emptied.
C29_NoLostWakeup ==
    [][\A r \in Reqs :
          /\ Outstanding(r)'
                => /\ eonce'[r].rko \/ QueuedOps(rk_ops', r) # {}
                   /\ rko'[r].state # STATE_INIT
                         => ~(eonce'[r].rko /\ QueuedOps(rk_ops', r) # {})
                   /\ Cardinality(QueuedOps(rk_ops', r)) <= 1
          /\ (WorkerInvoked(r) /\ rko'[r].exit \in {"waiting", "sent"})
                => /\ eonce'[r].rko
                   /\ rko'[r].eonce
                   /\ OutstandingSources(r)' >= 1]_vars

\* a request waiting for its broker was woken by a broker state change that
\* emptied the payload slot and put the rko on the ops queue, while another
\* request, sent, stays in the payload slot of its eonce
C29_Witness ==
    \E r \in Reqs :
        /\ rko[r].mem = "alloc"
        /\ rko[r].exit = "waiting"
        /\ ~eonce[r].rko
        /\ QueuedOps(rk_ops, r) # {}
        /\ rko[r].rko_err = NO_ERROR
        /\ rko[r].tmr = "armed"
        /\ up[rko[r].broker_id]
        /\ \E s \in Reqs : s # r /\ rko[s].exit = "sent" /\ eonce[s].rko
                                 /\ rko[s].mem = "alloc"

\* the responses of request r that wait on the ops queue
QueuedResponses(q, r) ==
    {i \in 1..Len(q) : q[i].type = "resp" /\ q[i].r = r}

\* this step runs cbs->request for request r
BuilderInvoked(r) ==
    /\ WorkerInvoked(r)
    /\ rko'[r].exit \in {"sent", "request_failed"}

\* C30: nothing is retried: cbs->request runs at most once for a request,
\* in the one invocation that enters CONSTRUCT_REQUEST, so the request goes
\* on the wire at most once and gets at most one response; the reply buffer
\* of the request is written only by the response callback that found the
\* rko in the eonce, once, and it is empty before.
C30_NothingRetried ==
    [][\A r \in Reqs :
          /\ BuilderInvoked(r)
                => /\ wire[r] = "none"
                   /\ rko[r].reply_buf = NULL
                   /\ \A i \in 1..Len(rko[r].path) :
                         rko[r].path[i] # STATE_CONSTRUCT_REQUEST
                   /\ Cardinality({i \in 1..Len(rko'[r].path) :
                          rko'[r].path[i] = STATE_CONSTRUCT_REQUEST}) = 1
                   /\ wire'[r] = "sent" <=> rko'[r].exit = "sent"
          /\ wire'[r] # wire[r]
                => \/ /\ wire[r] = "none" /\ wire'[r] = "sent"
                      /\ BuilderInvoked(r)
                   \/ /\ wire[r] = "sent" /\ wire'[r] = "replied"
                      /\ Cardinality(QueuedResponses(rk_ops', r)) = 1
          /\ Cardinality(QueuedResponses(rk_ops', r)) <= 1
          /\ QueuedResponses(rk_ops', r) # {} => wire'[r] = "replied"
          /\ rko'[r].reply_buf # rko[r].reply_buf
                => /\ ResponseCallback(r)
                   /\ eonce[r].rko
                   /\ rko[r].reply_buf = NULL
                   /\ rko[r].state = STATE_WAIT_RESPONSE
                   /\ rko'[r].reply_buf = Head(rk_ops).reply
          /\ (ResponseCallback(r) /\ eonce[r].rko)
                => /\ rko[r].reply_buf = NULL
                   /\ rko'[r].reply_buf = Head(rk_ops).reply
                   /\ QueuedResponses(rk_ops', r) = {}
                   /\ wire'[r] = "replied"]_vars

\* one request was sent once, answered once and destroyed with the reply
\* buffer the response callback attached, and another one was destroyed when
\* its cbs->request failed, with nothing on the wire
C30_Witness ==
    \E r, s \in Reqs :
        /\ Destroyed(r)
        /\ rko[r].exit \in {"parsed", "parse_failed"}
        /\ rko[r].reply_buf # NULL
        /\ wire[r] = "replied"
        /\ Destroyed(s)
        /\ rko[s].exit = "request_failed"
        /\ rko[s].state = STATE_CONSTRUCT_REQUEST
        /\ wire[s] = "none"
        /\ rko[s].reply_buf = NULL

\* C31: when cbs->request fails in CONSTRUCT_REQUEST, the same invocation
\* removes the "send" source it had added, posts one failure result with the
\* error of cbs->request and destroys the request: the state stays
\* CONSTRUCT_REQUEST, nothing goes on the wire, and afterwards no response
\* is queued for the request and nothing about it changes.
C31_BuilderFailure ==
    [][\A r \in Reqs :
          /\ (WorkerInvoked(r) /\ rko'[r].exit = "request_failed")
                => /\ \E err \in RequestErrs \ {NO_ERROR} : FailsWith(r, err)
                   /\ Len(replyq'[r]) = 1
                   /\ Destroyed(r)'
                   /\ ~rko'[r].eonce
                   /\ rko'[r].state = STATE_CONSTRUCT_REQUEST
                   /\ \A i \in 1..Len(rko'[r].path) :
                         rko'[r].path[i] # STATE_WAIT_RESPONSE
                   /\ wire[r] = "none" /\ wire'[r] = "none"
                   /\ eonce'[r].refcnt = OutstandingSources(r)'
                   /\ eonce'[r].refcnt =
                         Cardinality({i \in 1..Len(waiters') : waiters'[i] = r})
          /\ rko[r].exit = "request_failed"
                => /\ rko'[r] = rko[r]
                   /\ replyq'[r] = replyq[r]
                   /\ wire'[r] = "none"
                   /\ QueuedResponses(rk_ops', r) = {}
                   /\ QueuedOps(rk_ops', r) = {}]_vars

\* a request whose cbs->request failed: destroyed in CONSTRUCT_REQUEST with
\* the one failure result, nothing on the wire and no source left on its
\* eonce
C31_Witness ==
    \E r \in Reqs :
        /\ Destroyed(r)
        /\ rko[r].exit = "request_failed"
        /\ rko[r].state = STATE_CONSTRUCT_REQUEST
        /\ OnlyFailure(r, ERR__UNSUPPORTED_FEATURE)
        /\ wire[r] = "none"
        /\ rko[r].tmr = "stopped"
        /\ eonce[r].refcnt = 0

\* C32: the broker reference a successful lookup returns is released by
\* rd_kafka_broker_destroy in the same invocation, after cbs->request was
\* called and on both of its outcomes: no request holds a broker reference
\* in any state between invocations, be it waiting for a broker, waiting for
\* the response, or destroyed, and the count never goes below zero.
C32_BrokerReleased ==
    [][\A r \in Reqs :
          /\ rko'[r].rkb_held = 0
          /\ BuilderInvoked(r)
                => /\ up[rko'[r].broker_id]
                   /\ rko[r].rkb_held = 0
          /\ (WorkerInvoked(r) /\ rko'[r].exit = "waiting")
                => ~up[rko'[r].broker_id]]_vars

\* one request found its broker, sent its request and waits for the
\* response, another one found its broker and was destroyed when
\* cbs->request failed: neither holds a broker reference
C32_Witness ==
    \E r, s \in Reqs :
        /\ rko[r].mem = "alloc"
        /\ rko[r].exit = "sent"
        /\ rko[r].state = STATE_WAIT_RESPONSE
        /\ rko[r].rkb_held = 0
        /\ Destroyed(s)
        /\ rko[s].exit = "request_failed"
        /\ rko[s].rkb_held = 0

\* the rko of request r sits in the payload slot of its eonce and a source
\* that may trigger the eonce is registered
AwaitsWake(r) == eonce[r].rko /\ OutstandingSources(r) > 0

\* C33: single ownership: between worker invocations a request that has not
\* been dismantled is either on the ops queue, once, or in the payload slot
\* of its eonce waiting for one of its sources to wake it, never both and
\* never neither (a submitted request waits on the ops queue while its new
\* eonce has no source yet); a dismantled request is in neither place, so it
\* is never enqueued again.
C33_SingleOwnership ==
    \A r \in Reqs :
        /\ Outstanding(r)
              => /\ Cardinality(QueuedOps(rk_ops, r)) <= 1
                 /\ Count(QueuedOps(rk_ops, r) # {}) + Count(AwaitsWake(r)) = 1
                 /\ rko[r].state # STATE_INIT
                       => Count(QueuedOps(rk_ops, r) # {})
                          + Count(eonce[r].rko) = 1
                 /\ (rko[r].state = STATE_INIT /\ rko[r].exit = "none")
                       => /\ QueuedOps(rk_ops, r) # {}
                          /\ OutstandingSources(r) = 0
        /\ Dismantled(r)
              => /\ QueuedOps(rk_ops, r) = {}
                 /\ ~eonce[r].rko

\* one request sits in the payload slot of its eonce with its timer and its
\* sent request as sources, while another one, taken from the slot by a
\* broker state change, is on the ops queue with its timer still armed
C33_Witness ==
    \E r, s \in Reqs :
        /\ Outstanding(r)
        /\ rko[r].state = STATE_WAIT_RESPONSE
        /\ eonce[r].rko
        /\ QueuedOps(rk_ops, r) = {}
        /\ OutstandingSources(r) = 2
        /\ Outstanding(s)
        /\ rko[s].state \in {STATE_WAIT_BROKER, STATE_WAIT_CONTROLLER}
        /\ ~eonce[s].rko
        /\ Cardinality(QueuedOps(rk_ops, s)) = 1
        /\ rko[s].tmr = "armed"

\* this step belongs to request r: its submission, the callback of its
\* timer, the delivery of its response, its worker or its response callback
StepOf(r) ==
    \/ rko[r].mem = "none" /\ rko'[r].mem # "none"
    \/ rko[r].tmr = "armed" /\ rko'[r].tmr = "fired"
    \/ wire[r] = "sent" /\ wire'[r] = "replied"
    \/ Dequeues(r)

\* C34: requests outstanding together are independent: a step of one request
\* (submission, timer, response, worker invocation, destroy) leaves the rko,
\* the eonce, the wire and the results of every other request as they are;
\* a broker state change only wakes the waiting requests, each through its
\* own eonce; and every request gets at most one result, built from its own
\* type, event type and opaque.
C34_RequestsIndependent ==
    [][\A r \in Reqs :
          /\ StepOf(r)
                => \A s \in Reqs \ {r} :
                      /\ rko'[s] = rko[s]
                      /\ eonce'[s] = eonce[s]
                      /\ replyq'[s] = replyq[s]
                      /\ wire'[s] = wire[s]
                      /\ QueuedOps(rk_ops', s) = QueuedOps(rk_ops, s)
                         \/ Dequeues(r)
                      /\ Cardinality(QueuedOps(rk_ops', s))
                            = Cardinality(QueuedOps(rk_ops, s))
          /\ (\A q \in Reqs : ~StepOf(q))
                => /\ replyq'[r] = replyq[r]
                   /\ wire'[r] = wire[r]
                   /\ rko'[r] = [rko[r] EXCEPT !.rko_err = rko'[r].rko_err]
                   /\ rko'[r].rko_err # rko[r].rko_err
                         => /\ eonce[r].rko /\ ~eonce'[r].rko
                            /\ \E i \in 1..Len(waiters) : waiters[i] = r
          /\ Len(replyq'[r]) <= 1
          /\ replyq'[r] # <<>>
                => /\ replyq'[r][1].reqtype = rko'[r].rko_type
                   /\ replyq'[r][1].evtype = rko'[r].reply_event_type
                   /\ replyq'[r][1].opaque = rko'[r].options.opaque]_vars

\* two requests of different APIs were outstanding together and each was
\* destroyed with its own result: one timed out, the other got its parsed
\* reply
C34_Witness ==
    \E r, s \in Reqs :
        /\ rko[r].rko_type # rko[s].rko_type
        /\ Destroyed(r)
        /\ OnlyFailure(r, ERR__TIMED_OUT)
        /\ replyq[r][1].reqtype = rko[r].rko_type
        /\ Destroyed(s)
        /\ rko[s].exit = "parsed"
        /\ Len(replyq[s]) = 1
        /\ replyq[s][1].err = NO_ERROR
        /\ replyq[s][1].reqtype = rko[s].rko_type
        /\ rko[s].abs_timeout >= rko[r].abs_timeout

\* a setter of the replica assignment was called on the object of ra and
\* returned
ReplicaSetterReturned == ra.before # NULL /\ ~ra.aborted

\* the int32 list a setter call asks to store
GivenList(call) == SubSeq(call.broker_ids, 1, call.broker_id_cnt)

\* C35: replica assignments are added consecutively from 0: a setter call
\* returns NO_ERROR only if its partition equals the number of assignments
\* stored (and, on a NewTopic, the replication factor is -1) and the broker
\* id count is at most RD_KAFKAP_BROKERS_MAX, and then appends the given
\* list; a rejected call returns ERR__INVALID_ARG and leaves the object as
\* it was; so the k-th stored assignment is the one given for index k.
C35_ConsecutiveAssignments ==
    /\ ReplicaSetterReturned
          => /\ ra.ret = NO_ERROR
                   => /\ ra.call.partition = Len(ra.before.replicas)
                      /\ ra.before.type = "NewTopic"
                            => ra.before.replication_factor = -1
                      /\ ra.call.broker_id_cnt <= RD_KAFKAP_BROKERS_MAX
                      /\ ra.obj = [ra.before EXCEPT !.replicas =
                                      Append(@, GivenList(ra.call))]
             /\ ra.ret # NO_ERROR
                   => /\ ra.ret = ERR__INVALID_ARG
                      /\ ra.obj = ra.before
                      /\ \/ ra.call.partition # Len(ra.before.replicas)
                         \/ ra.call.broker_id_cnt > RD_KAFKAP_BROKERS_MAX
                         \/ /\ ra.before.type = "NewTopic"
                            /\ ra.before.replication_factor # -1
    /\ (ra.obj # NULL /\ ~ra.aborted)
          => /\ Len(ra.obj.replicas) = Len(ra.given)
             /\ \A k \in 1..Len(ra.given) :
                   /\ ra.given[k].partition = k - 1
                   /\ ra.obj.replicas[k] = GivenList(ra.given[k])

\* a NewTopic of two partitions got its assignments for 0 and 1 and refused
\* a third call that named partition 0 again
C35_Witness ==
    /\ ReplicaSetterReturned
    /\ ra.obj.type = "NewTopic"
    /\ ra.obj.num_partitions = 2
    /\ ra.ncalls = 3
    /\ Len(ra.obj.replicas) = 2
    /\ ra.obj.replicas[1] # ra.obj.replicas[2]
    /\ ra.call.partition = 0
    /\ ra.ret = ERR__INVALID_ARG
    /\ ra.obj = ra.before

\* the number of partitions the object of ra was created with
CreatedCount(obj) ==
    IF obj.type = "NewTopic" THEN obj.num_partitions ELSE obj.total_cnt

\* C39: an object created for n partitions never stores more than n replica
\* assignments: a setter call for a partition index of n or above returns
\* ERR__INVALID_ARG.
C39_AssignmentsWithinCount ==
    /\ ra.obj # NULL => Len(ra.obj.replicas) <= CreatedCount(ra.obj)
    /\ (ra.before # NULL /\ ra.call.partition >= CreatedCount(ra.before))
          => /\ ~ra.aborted
             /\ ra.ret = ERR__INVALID_ARG

\* a NewTopic created with one partition whose setter returned NO_ERROR for
\* partition 0 and then for partition 1: two assignments are stored
C39_Witness ==
    /\ ReplicaSetterReturned
    /\ ra.obj.type = "NewTopic"
    /\ ra.obj.num_partitions = 1
    /\ ra.call.partition = 1
    /\ ra.ret = NO_ERROR
    /\ Len(ra.obj.replicas) = 2

\* C36: no worker invocation, from the ops queue or from the response
\* callback, finds the request in CONSTRUCT_REQUEST: that state is entered
\* and left within the invocation whose lookup returned the broker, so the
\* rd_assert(rkb) of CONSTRUCT_REQUEST never fails; a request whose state
\* stays CONSTRUCT_REQUEST is one destroyed there by a failed cbs->request.
C36_ConstructOnlyAfterLookup ==
    [][\A r \in Reqs :
          /\ WorkerInvoked(r)
                => /\ rko[r].state # STATE_CONSTRUCT_REQUEST
                   /\ rko'[r].exit # "assert_rkb"
          /\ Dequeues(r) => rko[r].state # STATE_CONSTRUCT_REQUEST
          /\ BuilderInvoked(r)
                => /\ rko[r].state \in {STATE_INIT, STATE_WAIT_BROKER,
                                        STATE_WAIT_CONTROLLER}
                   /\ up[rko'[r].broker_id]
          /\ rko'[r].state = STATE_CONSTRUCT_REQUEST
                => /\ Destroyed(r)'
                   /\ rko'[r].exit = "request_failed"
                   /\ QueuedOps(rk_ops', r) = {}
                   /\ QueuedResponses(rk_ops', r) = {}]_vars

\* a request that waited for the controller, was woken by its coming up,
\* and went through CONSTRUCT_REQUEST to WAIT_RESPONSE in that invocation
C36_Witness ==
    \E r \in Reqs :
        /\ rko[r].mem = "alloc"
        /\ rko[r].path = <<STATE_INIT, STATE_WAIT_CONTROLLER,
                           STATE_CONSTRUCT_REQUEST, STATE_WAIT_RESPONSE>>
        /\ rko[r].exit = "sent"
        /\ up[-1]
        /\ eonce[r].refcnt = 3

\* C37: whenever the worker gets as far as the WAIT_RESPONSE case (not
\* terminating, rko_err NO_ERROR, deadline not passed), it was called from
\* the response callback with a reply buffer attached, so cbs->parse never
\* runs on a NULL reply_buf: a request in WAIT_RESPONSE has no entry in the
\* broker state waiters and no op of its own queued with NO_ERROR, so only
\* the timer or the response callback can wake it there.
C37_ReplyAttachedAtParse ==
    [][\A r \in Reqs :
          /\ ( /\ WorkerInvoked(r)
               /\ ~terminating
               /\ EntryErr(r) = NO_ERROR
               /\ now < rko[r].abs_timeout
               /\ rko[r].state = STATE_WAIT_RESPONSE )
                => /\ Head(rk_ops).type = "resp"
                   /\ Head(rk_ops).reply # NULL
                   /\ rko'[r].reply_buf = Head(rk_ops).reply
                   /\ rko'[r].exit \in {"parsed", "parse_failed"}
          /\ rko'[r].exit # "null_reply_deref"
          /\ ( rko[r].state = STATE_WAIT_RESPONSE /\ Outstanding(r) )
                => /\ r \notin Range(waiters)
                   /\ \A i \in QueuedOps(rk_ops, r) :
                         rko[r].rko_err = ERR__TIMED_OUT]_vars

\* a request that waited for its broker has had its response parsed
C37_Witness ==
    \E r \in Reqs :
        /\ rko[r].exit \in {"parsed", "parse_failed"}
        /\ rko[r].reply_buf # NULL
        /\ rko[r].rko_err = NO_ERROR
        /\ rko[r].path = <<STATE_INIT, STATE_WAIT_BROKER,
                           STATE_CONSTRUCT_REQUEST, STATE_WAIT_RESPONSE>>
        /\ waiters = <<>>

\* C38: every request op that was created is destroyed once it has been
\* dismantled, on every path: a request whose eonce link has been released
\* (result posted from the ops queue or from the response callback, silent
\* cleanup at termination, or rejection by the pre-flight of AlterConfigs /
\* DescribeConfigs before the op is enqueued) does not stay allocated.
C38_HandleDestroyed ==
    \A r \in Reqs : rko[r].mem = "alloc" => rko[r].eonce

\* a config request rejected by the pre-flight: its failure is posted, its
\* eonce is released, it is on no queue, and the op is still allocated
C38_Witness ==
    \E r \in Reqs :
        /\ rko[r].rko_type \in {OP_ALTERCONFIGS, OP_DESCRIBECONFIGS}
        /\ rko[r].mem = "alloc"
        /\ ~rko[r].eonce
        /\ ~eonce[r].rko
        /\ rko[r].exit = "none"
        /\ Len(replyq[r]) = 1
        /\ replyq[r][1].err \in {ERR__CONFLICT, ERR__INVALID_ARG}
        /\ QueuedOps(rk_ops, r) = {}
        /\ QueuedResponses(rk_ops, r) = {}

====
